---- MODULE Spec2Model ----
(***************************************************************************)
(* CoCzeFLA morphological annotation: the CHAT -> plain text normaliser,   *)
(* the tag classifier, the annotation word builder and the line / stream   *)
(* drivers of annotation.py.                                               *)
(*                                                                         *)
(* Strings are sequences of characters.  A character is a one-character    *)
(* string; a character outside printable ASCII is written by its code      *)
(* point, "U+011B" for e-caron, "U+201C" for the opening curly quote.      *)
(* S("p{0159}i{0161}el") is the string of the characters p, U+0159, i,     *)
(* U+0161, e, l.                                                           *)
(***************************************************************************)
EXTENDS FiniteSets, Integers, Sequences, TLC

(***************************************************************************)
(* Alphabet                                                                *)
(***************************************************************************)
LowerAscii ==
    {"a", "b", "c", "d", "e", "f", "g", "h", "i", "j", "k", "l", "m", "n",
     "o", "p", "q", "r", "s", "t", "u", "v", "w", "x", "y", "z"}

UpperAscii ==
    {"A", "B", "C", "D", "E", "F", "G", "H", "I", "J", "K", "L", "M", "N",
     "O", "P", "Q", "R", "S", "T", "U", "V", "W", "X", "Y", "Z"}

\* áäąčćďéěëęíłňńóöřšśťůúüýžźż
LowerAccented ==
    {"U+00E1", "U+00E4", "U+0105", "U+010D", "U+0107", "U+010F", "U+00E9",
     "U+011B", "U+00EB", "U+0119", "U+00ED", "U+0142", "U+0148", "U+0144",
     "U+00F3", "U+00F6", "U+0159", "U+0161", "U+015B", "U+0165", "U+016F",
     "U+00FA", "U+00FC", "U+00FD", "U+017E", "U+017A", "U+017C"}

\* ÁÄĄČĆĎÉĚËĘÍŁŇŃÓÖŘŠŚŤŮÚÜÝŽŹŻ
UpperAccented ==
    {"U+00C1", "U+00C4", "U+0104", "U+010C", "U+0106", "U+010E", "U+00C9",
     "U+011A", "U+00CB", "U+0118", "U+00CD", "U+0141", "U+0147", "U+0143",
     "U+00D3", "U+00D6", "U+0158", "U+0160", "U+015A", "U+0164", "U+016E",
     "U+00DA", "U+00DC", "U+00DD", "U+017D", "U+0179", "U+017B"}

\* a-zA-Z and the accented letters, as spelled out in every character class
Letter == LowerAscii \cup UpperAscii \cup LowerAccented \cup UpperAccented

Digit == {"0", "1", "2", "3", "4", "5", "6", "7", "8", "9"}

\* \s
Whitespace == {" ", "\t", "\n", "\r", "\f", "U+000B"}

RECURSIVE SFrom(_, _)
SFrom(str, i) ==
    IF i > Len(str) THEN <<>>
    ELSE IF SubSeq(str, i, i) = "{"
         THEN <<"U+" \o SubSeq(str, i + 1, i + 4)>> \o SFrom(str, i + 6)
         ELSE <<SubSeq(str, i, i)>> \o SFrom(str, i + 1)

\* the characters of a string literal; {011B} stands for the character
\* U+011B
S(str) == SFrom(str, 1)

\* constants.py
PLACEHOLDER_INTERJECTION == S("bacashoogacit")
PLACEHOLDER_NEOLOGISM == S("bacashoogachi")
PLACEHOLDER_FOREIGN == S("bacashoogaciz")

(***************************************************************************)
(* Regular expressions (Python re): patterns as syntax trees, matched by   *)
(* backtracking with greedy quantifiers and ordered alternatives.          *)
(***************************************************************************)
Lit(c) == [t |-> "cls", cs |-> {c}]
Cls(cs) == [t |-> "cls", cs |-> cs]
AnyChar == [t |-> "any"]
Bol == [t |-> "bol"]
Eol == [t |-> "eol"]
Cat(xs) == [t |-> "cat", xs |-> xs]
Str(w) == [t |-> "cat", xs |-> [i \in 1..Len(w) |-> Lit(w[i])]]
Alt(xs) == [t |-> "alt", xs |-> xs]
\* x{lo,hi}
Rep(x, lo, hi) == [t |-> "rep", x |-> x, lo |-> lo, hi |-> hi, inf |-> FALSE]
\* x{lo,}
Star(x, lo) == [t |-> "rep", x |-> x, lo |-> lo, hi |-> 0, inf |-> TRUE]
Grp(n, x) == [t |-> "grp", n |-> n, x |-> x]
Txt(w) == [ref |-> 0, txt |-> w]
Ref(n) == [ref |-> n, txt |-> <<>>]

GroupIds == {1, 2}
NoGroups == [n \in GroupIds |-> <<0, 0>>]
NoMatch == [ok |-> FALSE, e |-> 0, g |-> NoGroups]

MaxOf(ns) == CHOOSE x \in ns : \A y \in ns : y <= x
MinOf(ns) == CHOOSE x \in ns : \A y \in ns : x <= y

RECURSIVE Match(_, _, _, _)
RECURSIVE MatchAlt(_, _, _, _, _, _)
\* match the nodes of k one after the other in s from position i;
\* the first success in backtracking order, or NoMatch
Match(k, s, i, g) ==
    IF Len(k) = 0 THEN [ok |-> TRUE, e |-> i, g |-> g]
    ELSE LET n == Head(k)
             r == Tail(k)
         IN CASE n.t = "cls" ->
                    IF i <= Len(s) /\ s[i] \in n.cs
                    THEN Match(r, s, i + 1, g) ELSE NoMatch
              [] n.t = "any" ->
                    IF i <= Len(s) /\ s[i] # "\n"
                    THEN Match(r, s, i + 1, g) ELSE NoMatch
              [] n.t = "bol" ->
                    IF i = 1 THEN Match(r, s, i, g) ELSE NoMatch
              [] n.t = "eol" ->
                    IF i = Len(s) + 1 \/ (i = Len(s) /\ s[i] = "\n")
                    THEN Match(r, s, i, g) ELSE NoMatch
              [] n.t = "cat" -> Match(n.xs \o r, s, i, g)
              [] n.t = "alt" -> MatchAlt(n.xs, 1, r, s, i, g)
              [] n.t = "rep" ->
                    IF n.x.t = "cls"
                    THEN \* a repeated character class: the longest run the
                         \* rest of the pattern can follow, as backtracking
                         \* from the greedy match finds it
                         LET most == IF n.inf \/ n.hi > Len(s) + 1 - i
                                     THEN Len(s) + 1 - i ELSE n.hi
                             run == CHOOSE c \in 0..most :
                                      /\ \A d \in 0..(c - 1) : s[i + d] \in n.x.cs
                                      /\ c = most \/ s[i + c] \notin n.x.cs
                             fits == {c \in n.lo..run : Match(r, s, i + c, g).ok}
                         IN IF fits = {} THEN NoMatch
                            ELSE Match(r, s, i + MaxOf(fits), g)
                    ELSE LET again == [n EXCEPT !.lo = IF n.lo > 0 THEN n.lo - 1 ELSE 0,
                                                !.hi = IF n.inf THEN 0 ELSE n.hi - 1]
                             more == IF n.inf \/ n.hi > 0
                                     THEN Match(<<n.x, again>> \o r, s, i, g)
                                     ELSE NoMatch
                         IN IF more.ok THEN more
                            ELSE IF n.lo = 0 THEN Match(r, s, i, g) ELSE NoMatch
              [] n.t = "grp" ->
                    Match(<<n.x, [t |-> "end", n |-> n.n, from |-> i]>> \o r, s, i, g)
              [] n.t = "end" ->
                    Match(r, s, i, [g EXCEPT ![n.n] = <<n.from, i>>])

MatchAlt(xs, j, r, s, i, g) ==
    IF j > Len(xs) THEN NoMatch
    ELSE LET m == Match(<<xs[j]>> \o r, s, i, g)
         IN IF m.ok THEN m ELSE MatchAlt(xs, j + 1, r, s, i, g)

\* re.search(p, s) is not None
Search(p, s) == \E i \in 1..(Len(s) + 1) : Match(<<p>>, s, i, NoGroups).ok

\* the match deleted whatever the replacement template says
Expand_delete(repl, s, g) == <<>>

RECURSIVE Expand(_, _, _)
\* the replacement template with \N replaced by group N of the match
Expand(repl, s, g) ==
    IF Len(repl) = 0 THEN <<>>
    ELSE LET h == Head(repl)
             piece == IF h.ref = 0 THEN h.txt
                      ELSE SubSeq(s, g[h.ref][1], g[h.ref][2] - 1)
         IN piece \o Expand(Tail(repl), s, g)

RECURSIVE SubFrom(_, _, _)
\* re.sub from position i on: the leftmost match is replaced and the scan
\* goes on behind it (no pattern of the rule table matches the empty string)
SubFrom(rule, s, i) ==
    LET starts == {j \in i..Len(s) :
                     LET m == Match(<<rule.pattern>>, s, j, NoGroups)
                     IN m.ok /\ m.e > j}
    IN IF starts = {} THEN SubSeq(s, i, Len(s))
       ELSE LET j == MinOf(starts)
                m == Match(<<rule.pattern>>, s, j, NoGroups)
            IN SubSeq(s, i, j - 1) \o Expand(rule.repl, s, m.g)
                 \o SubFrom(rule, s, m.e)

\* re.sub(rule[0], rule[1], s)
Sub(rule, s) == SubFrom(rule, s, 1)

(***************************************************************************)
(* annot_util/replacement_rules.py                                         *)
(* Alternatives with a common prefix are written with the prefix once.     *)
(***************************************************************************)
CHAT_TO_PLAIN_TEXT ==
    <<
    \* \*[A-Z]{3}:\t  ->  ''
      [pattern |-> Cat(<<Lit("*"), Rep(Cls(UpperAscii), 3, 3), Str(S(":\t"))>>),
       repl |-> <<>>],
    \* @i|@z:ip|@z:ia|@z:in  ->  'bacashoogacit'
      [pattern |-> Cat(<<Lit("@"), Alt(<<Lit("i"), Str(S("z:ip")), Str(S("z:ia")), Str(S("z:in"))>>)>>),
       repl |-> <<Txt(PLACEHOLDER_INTERJECTION)>>],
    \* @c|@n  ->  'bacashoogachi'
      [pattern |-> Cat(<<Lit("@"), Cls({"c", "n"})>>),
       repl |-> <<Txt(PLACEHOLDER_NEOLOGISM)>>],
    \* @z:f  ->  'bacashoogaciz'
      [pattern |-> Str(S("@z:f")),
       repl |-> <<Txt(PLACEHOLDER_FOREIGN)>>],
    \* @z:m  ->  ''
      [pattern |-> Str(S("@z:m")),
       repl |-> <<>>],
    \* ([a-zA-ZáäąčćďéěëęíłňńóöřšśťůúüýžźżÁÄĄČĆĎÉĚËĘÍŁŇŃÓÖŘŠŚŤŮÚÜÝŽŹŻ]):  ->  '\\1'
      [pattern |-> Cat(<<Grp(1, Cls(Letter)), Lit(":")>>),
       repl |-> <<Ref(1)>>],
    \* \^  ->  ''
      [pattern |-> Lit("^"),
       repl |-> <<>>],
    \* ((?:[ <]|^)[a-zA-ZáäąčćďéěëęíłňńóöřšśťůúüýžźżÁÄĄČĆĎÉĚËĘÍŁŇŃÓÖŘŠŚŤŮÚÜÝŽŹŻ]+)-(li[ >])  ->  '\\1 \\2'
      [pattern |-> Cat(<<Grp(1, Cat(<<Alt(<<Cls({" ", "<"}), Bol>>), Star(Cls(Letter), 1)>>)), Lit("-"), Grp(2, Cat(<<Str(S("li")), Cls({" ", ">"})>>))>>),
       repl |-> <<Ref(1), Txt(S(" ")), Ref(2)>>],
    \* ((?:[ <]|^)[a-zA-ZáäąčćďéěëęíłňńóöřšśťůúüýžźżÁÄĄČĆĎÉĚËĘÍŁŇŃÓÖŘŠŚŤŮÚÜÝŽŹŻ]+)-([a-zA-ZáäąčćďéěëęíłňńóöřšśťůúüýžźżÁÄĄČĆĎÉĚËĘÍŁŇŃÓÖŘŠŚŤŮÚÜÝŽŹŻ]+[ >])  ->  '\\1\\2'
      [pattern |-> Cat(<<Grp(1, Cat(<<Alt(<<Cls({" ", "<"}), Bol>>), Star(Cls(Letter), 1)>>)), Lit("-"), Grp(2, Cat(<<Star(Cls(Letter), 1), Cls({" ", ">"})>>))>>),
       repl |-> <<Ref(1), Ref(2)>>],
    \* <[ &+,'“”_a-zA-ZáäąčćďéěëęíłňńóöřšśťůúüýžźżÁÄĄČĆĎÉĚËĘÍŁŇŃÓÖŘŠŚŤŮÚÜÝŽŹŻ]*> \[(\/{1,2}|=! (básnička|zpěv))\]  ->  ''
      [pattern |-> Cat(<<Lit("<"), Star(Cls({" ", "&", "+", ",", "'", "U+201C", "U+201D", "_"} \cup Letter), 0), Str(S("> [")), Grp(1, Alt(<<Rep(Lit("/"), 1, 2), Cat(<<Str(S("=! ")), Grp(2, Alt(<<Str(S("b{00E1}sni{010D}ka")), Str(S("zp{011B}v"))>>))>>)>>)), Lit("]")>>),
       repl |-> <<>>],
    \* &=[_:a-zA-ZáäąčćďéěëęíłňńóöřšśťůúüýžźżÁÄĄČĆĎÉĚËĘÍŁŇŃÓÖŘŠŚŤŮÚÜÝŽŹŻ]+  ->  ''
      [pattern |-> Cat(<<Str(S("&=")), Star(Cls({"_", ":"} \cup Letter), 1)>>),
       repl |-> <<>>],
    \* (&\+|&=0)[_a-zA-ZáäąčćďéěëęíłňńóöřšśťůúüýžźżÁÄĄČĆĎÉĚËĘÍŁŇŃÓÖŘŠŚŤŮÚÜÝŽŹŻ]+  ->  ''
      [pattern |-> Cat(<<Grp(1, Cat(<<Lit("&"), Alt(<<Lit("+"), Str(S("=0"))>>)>>)), Star(Cls({"_"} \cup Letter), 1)>>),
       repl |-> <<>>],
    \* <([ &+,“”_a-zA-ZáäąčćďéěëęíłňńóöřšśťůúüýžźżÁÄĄČĆĎÉĚËĘÍŁŇŃÓÖŘŠŚŤŮÚÜÝŽŹŻ]*)> \[(x [0-9]+ ?|\?)\]  ->  '\\1'
      [pattern |-> Cat(<<Lit("<"), Grp(1, Star(Cls({" ", "&", "+", ",", "U+201C", "U+201D", "_"} \cup Letter), 0)), Str(S("> [")), Grp(2, Alt(<<Cat(<<Str(S("x ")), Star(Cls(Digit), 1), Rep(Lit(" "), 0, 1)>>), Lit("?")>>)), Lit("]")>>),
       repl |-> <<Ref(1)>>],
    \* [a-zA-ZáäąčćďéěëęíłňńóöřšśťůúüýžźżÁÄĄČĆĎÉĚËĘÍŁŇŃÓÖŘŠŚŤŮÚÜÝŽŹŻ]+ \[:([ a-zA-ZáäąčćďéěëęíłňńóöřšśťůúüýžźżÁÄĄČĆĎÉĚËĘÍŁŇŃÓÖŘŠŚŤŮÚÜÝŽŹŻ]+)\]  ->  '\\1'
      [pattern |-> Cat(<<Star(Cls(Letter), 1), Str(S(" [:")), Grp(1, Star(Cls({" "} \cup Letter), 1)), Lit("]")>>),
       repl |-> <<Ref(1)>>],
    \* _  ->  ''
      [pattern |-> Lit("_"),
       repl |-> <<>>],
    \* \(.\)  ->  ''
      [pattern |-> Cat(<<Lit("("), AnyChar, Lit(")")>>),
       repl |-> <<>>],
    \* \[\*\]  ->  ''
      [pattern |-> Str(S("[*]")),
       repl |-> <<>>],
    \* xxx  ->  ''
      [pattern |-> Str(S("xxx")),
       repl |-> <<>>],
    \* \+<  ->  ''
      [pattern |-> Str(S("+<")),
       repl |-> <<>>],
    \* [Nn]ee  ->  'ne'
      [pattern |-> Cat(<<Cls({"N", "n"}), Str(S("ee"))>>),
       repl |-> <<Txt(S("ne"))>>],
    \* \+ \. \. \.  ->  '+...'
      [pattern |-> Str(S("+ . . .")),
       repl |-> <<Txt(S("+..."))>>],
    \* \+\/ \.  ->  '+/.'
      [pattern |-> Str(S("+/ .")),
       repl |-> <<Txt(S("+/."))>>],
    \*  \[= !   ->  ' [=! '
      [pattern |-> Str(S(" [= ! ")),
       repl |-> <<Txt(S(" [=! "))>>],
    \* \s{1,}  ->  ' '
      [pattern |-> Star(Cls(Whitespace), 1),
       repl |-> <<Txt(S(" "))>>],
    \* (, )+(\.|\?|\!|\+\.\.\.|\+\/\.|,)  ->  '\\2'
      [pattern |-> Cat(<<Star(Grp(1, Str(S(", "))), 1), Grp(2, Alt(<<Lit("."), Lit("?"), Lit("!"), Str(S("+...")), Str(S("+/.")), Lit(",")>>))>>),
       repl |-> <<Ref(2)>>],
    \* ^\s+,  ->  ''
      [pattern |-> Cat(<<Bol, Star(Cls(Whitespace), 1), Lit(",")>>),
       repl |-> <<>>],
    \* ^\s+  ->  ''
      [pattern |-> Cat(<<Bol, Star(Cls(Whitespace), 1)>>),
       repl |-> <<>>],
    \* \s+$  ->  ''
      [pattern |-> Cat(<<Star(Cls(Whitespace), 1), Eol>>),
       repl |-> <<>>]
    >>

\* ^[ ,“”0a-zA-ZáäąčćďéěëęíłňńóöřšśťůúüýžźżÁÄĄČĆĎÉĚËĘÍŁŇŃÓÖŘŠŚŤŮÚÜÝŽŹŻ]*(\.|\?|\!|\+\.\.\.|\+\/\.)$
PLAIN_TEXT_CRITERIA ==
    Cat(<<Bol, Star(Cls({" ", ",", "U+201C", "U+201D", "0"} \cup Letter), 0), Grp(1, Alt(<<Lit("."), Lit("?"), Lit("!"), Str(S("+...")), Str(S("+/."))>>)), Eol>>)

\* lower case / upper case of the letters
CasePairs ==
    {<<"a", "A">>, <<"b", "B">>, <<"c", "C">>, <<"d", "D">>, <<"e", "E">>,
     <<"f", "F">>, <<"g", "G">>, <<"h", "H">>, <<"i", "I">>, <<"j", "J">>,
     <<"k", "K">>, <<"l", "L">>, <<"m", "M">>, <<"n", "N">>, <<"o", "O">>,
     <<"p", "P">>, <<"q", "Q">>, <<"r", "R">>, <<"s", "S">>, <<"t", "T">>,
     <<"u", "U">>, <<"v", "V">>, <<"w", "W">>, <<"x", "X">>, <<"y", "Y">>,
     <<"z", "Z">>, <<"U+00E1", "U+00C1">>, <<"U+00E4", "U+00C4">>,
     <<"U+0105", "U+0104">>, <<"U+010D", "U+010C">>, <<"U+0107", "U+0106">>,
     <<"U+010F", "U+010E">>, <<"U+00E9", "U+00C9">>, <<"U+011B", "U+011A">>,
     <<"U+00EB", "U+00CB">>, <<"U+0119", "U+0118">>, <<"U+00ED", "U+00CD">>,
     <<"U+0142", "U+0141">>, <<"U+0148", "U+0147">>, <<"U+0144", "U+0143">>,
     <<"U+00F3", "U+00D3">>, <<"U+00F6", "U+00D6">>, <<"U+0159", "U+0158">>,
     <<"U+0161", "U+0160">>, <<"U+015B", "U+015A">>, <<"U+0165", "U+0164">>,
     <<"U+016F", "U+016E">>, <<"U+00FA", "U+00DA">>, <<"U+00FC", "U+00DC">>,
     <<"U+00FD", "U+00DD">>, <<"U+017E", "U+017D">>, <<"U+017A", "U+0179">>,
     <<"U+017C", "U+017B">>}

(***************************************************************************)
(* annot_util/word_definitions.py                                          *)
(***************************************************************************)
\* boby, brýle, brejle, dveře, dvířka, jesličky, ... zarděnky
PLURAL_INVARIABLE_NOUNS ==
    <<S("boby"), S("br{00FD}le"), S("brejle"), S("dve{0159}e"),
      S("dv{00ED}{0159}ka"), S("jesli{010D}ky"), S("hodiny"), S("hodinky"),
      S("kalhoty"), S("kalhotky"), S("kamna"), S("kor{00E1}le"),
      S("kra{0165}asy"), S("narozeniny"), S("n{016F}{017E}ky"),
      S("pen{00ED}ze"), S("plavky"), S("slipy"), S("{0161}aty"),
      S("{0161}ati{010D}ky"), S("vrata"), S("z{00E1}da"), S("hory"),
      S("halu{0161}ky"), S("housle"), S("housli{010D}ky"), S("j{00E1}tra"),
      S("kle{0161}t{011B}"), S("kra{0165}{00E1}sky"), S("leg{00ED}ny"),
      S("leg{00ED}nky"), S("mluvidla"), S("narozky"), S("ne{0161}tovice"),
      S("nos{00ED}tka"), S("noviny"), S("nudle"),
      S("n{016F}{017E}ti{010D}ky"), S("pl{00ED}ce"), S("povidla"),
      S("san{011B}"), S("s{00E1}n{011B}"), S("s{00E1}{0148}ky"),
      S("spalni{010D}ky"), S("spodky"), S("{0161}t{00ED}pa{010D}ky"),
      S("svr{0161}ky"), S("{0161}unkofleky"), S("{0161}tafle"),
      S("vnit{0159}nosti"), S("tepl{00E1}ky"), S("zard{011B}nky")>>

\* Prčice, Velikonoce, Vánoce, Vary, Vršovice, Krkonoše
PLURAL_INVARIABLE_PROPER_NOUNS ==
    <<S("Pr{010D}ice"), S("Velikonoce"), S("V{00E1}noce"), S("Vary"),
      S("Vr{0161}ovice"), S("Krkono{0161}e")>>

\* moci, muset, smět
MODAL_VERBS ==
    <<S("moci"), S("muset"), S("sm{011B}t")>>

\* dokdy, dokud, jak, jakkoli, jakkoliv, jakpak, ... zde
PRONOMINAL_ADVERBS ==
    <<S("dokdy"), S("dokud"), S("jak"), S("jakkoli"), S("jakkoliv"),
      S("jakpak"), S("jaksi"), S("kam"), S("kamkoli"), S("kamkoliv"),
      S("kampak"), S("kamsi"), S("kde"), S("kdekoli"), S("kdekoliv"),
      S("kdepak"), S("kdesi"), S("kdy"), S("kdykoli"), S("kdykoliv"),
      S("kdypak"), S("kdysi"), S("kudy"), S("kudykoli"), S("kudykoliv"),
      S("kudypak"), S("kudysi"), S("na{010D}"), S("na{010D}e{017E}"),
      S("nakdy"), S("nakolik"), S("nato"), S("nav{017E}dy"), S("n{011B}jak"),
      S("n{011B}kam"), S("n{011B}kde"), S("n{011B}kdy"), S("nyn{00ED}"),
      S("odev{0161}ud"), S("odev{0161}ad"), S("odkdy"), S("odkdykoli"),
      S("odkdykoliv"), S("odkdypak"), S("odkdysi"), S("odkud"),
      S("odkudkoli"), S("odkudkoliv"), S("odkudpak"), S("odkudsi"),
      S("odsud"), S("odtamtud"), S("odtud"), S("onde"), S("onehdy"), S("pak"),
      S("pokud"), S("pot{00E9}"), S("pro{010D}"), S("pro{010D}e{017E}"),
      S("sem"), S("semka"), S("semhle"), S("tady"), S("tadyhle"),
      S("tadyhletudy"), S("tadytudy"), S("takhle"), S("takto"), S("tam"),
      S("tamhle"), S("t{00E1}mhle"), S("tamtudy"), S("tamhletudy"),
      S("te{010F}"), S("te{010F}ka"), S("tehdy"), S("tenkr{00E1}t"),
      S("tenkr{00E1}te"), S("tolik"), S("tolikr{00E1}t"), S("tudy"),
      S("tudyhle"), S("tuhle"), S("tuhletudy"), S("v{0161}ude"),
      S("v{017E}dy"), S("za{010D}e{017E}"), S("zde")>>

\* nikde, nikam, nikudy, nikdy, nijak, nikterak, odnikud
NEGATIVE_PRONOMINAL_ADVERBS ==
    <<S("nikde"), S("nikam"), S("nikudy"), S("nikdy"), S("nijak"),
      S("nikterak"), S("odnikud")>>

\* její, jejího, jejímu, jejím, jejích, jejími, jejíma
POSS_PRONOUN_F_3SG ==
    <<S("jej{00ED}"), S("jej{00ED}ho"), S("jej{00ED}mu"), S("jej{00ED}m"),
      S("jej{00ED}ch"), S("jej{00ED}mi"), S("jej{00ED}ma")>>

\* jeho
POSS_PRONOUN_M_N_3SG ==
    <<S("jeho")>>

\* jejich
POSS_PRONOUN_3PL ==
    <<S("jejich")>>

(***************************************************************************)
(* annot_util/replacement_rules.py: lookup tables.  A dict is the sequence  *)
(* of its <<key, value>> items in insertion order.                         *)
(***************************************************************************)
MOR_WORDS_OVERRIDES ==
    \* "mami": "n|máma-5&SG&F"
    <<<<S("mami"), S("n|m{00E1}ma-5&SG&F")>>,
    \* "koukej": "v|koukat-2&SG&imp&akt&impf"
      <<S("koukej"), S("v|koukat-2&SG&imp&akt&impf")>>,
    \* "zzz": "x|zzz"
      <<S("zzz"), S("x|zzz")>>,
    \* "rád": "adj:short|rád-1&SG&M"
      <<S("r{00E1}d"), S("adj:short|r{00E1}d-1&SG&M")>>,
    \* "ráda": "adj:short|rád-1&SG&F"
      <<S("r{00E1}da"), S("adj:short|r{00E1}d-1&SG&F")>>,
    \* "rádo": "adj:short|rád-1&SG&N"
      <<S("r{00E1}do"), S("adj:short|r{00E1}d-1&SG&N")>>,
    \* "rádi": "adj:short|rád-1&PL&M"
      <<S("r{00E1}di"), S("adj:short|r{00E1}d-1&PL&M")>>,
    \* "rády": "adj:short|rád-1&PL&F"
      <<S("r{00E1}dy"), S("adj:short|r{00E1}d-1&PL&F")>>,
    \* "se": "pro:refl|se-4&SG"
      <<S("se"), S("pro:refl|se-4&SG")>>,
    \* "si": "pro:refl|se-3&SG"
      <<S("si"), S("pro:refl|se-3&SG")>>,
    \* "jejichž": "pro:rel:poss|jejichž-x_pad&x_cislo&x_jmenny_rod"
      <<S("jejich{017E}"), S("pro:rel:poss|jejich{017E}-x_pad&x_cislo&x_jmenny_rod")>>,
    \* "bych": "v:aux|být-1&SG&cond&akt&impf"
      <<S("bych"), S("v:aux|b{00FD}t-1&SG&cond&akt&impf")>>,
    \* "bysem": "v:aux|být-1&SG&cond&akt&impf"
      <<S("bysem"), S("v:aux|b{00FD}t-1&SG&cond&akt&impf")>>,
    \* "bys": "v:aux|být-2&SG&cond&akt&impf"
      <<S("bys"), S("v:aux|b{00FD}t-2&SG&cond&akt&impf")>>,
    \* "bysi": "v:aux|být-2&SG&cond&akt&impf"
      <<S("bysi"), S("v:aux|b{00FD}t-2&SG&cond&akt&impf")>>,
    \* "by": "v:aux|být-3&x_cislo&cond&akt&impf"
      <<S("by"), S("v:aux|b{00FD}t-3&x_cislo&cond&akt&impf")>>,
    \* "bychom": "v:aux|být-1&PL&cond&akt&impf"
      <<S("bychom"), S("v:aux|b{00FD}t-1&PL&cond&akt&impf")>>,
    \* "bysme": "v:aux|být-1&PL&cond&akt&impf"
      <<S("bysme"), S("v:aux|b{00FD}t-1&PL&cond&akt&impf")>>,
    \* "byste": "v:aux|být-2&PL&cond&akt&impf"
      <<S("byste"), S("v:aux|b{00FD}t-2&PL&cond&akt&impf")>>,
    \* "abych": "conj:sub_v:aux|aby_být-1&SG&cond&akt&impf"
      <<S("abych"), S("conj:sub_v:aux|aby_b{00FD}t-1&SG&cond&akt&impf")>>,
    \* "abysem": "conj:sub_v:aux|aby_být-1&SG&cond&akt&impf"
      <<S("abysem"), S("conj:sub_v:aux|aby_b{00FD}t-1&SG&cond&akt&impf")>>,
    \* "abys": "conj:sub_v:aux|aby_být-2&SG&cond&akt&impf"
      <<S("abys"), S("conj:sub_v:aux|aby_b{00FD}t-2&SG&cond&akt&impf")>>,
    \* "abysi": "conj:sub_v:aux|aby_být-2&SG&cond&akt&impf"
      <<S("abysi"), S("conj:sub_v:aux|aby_b{00FD}t-2&SG&cond&akt&impf")>>,
    \* "aby": "conj:sub_v:aux|aby_být-3&x_cislo&cond&akt&impf"
      <<S("aby"), S("conj:sub_v:aux|aby_b{00FD}t-3&x_cislo&cond&akt&impf")>>,
    \* "abychom": "conj:sub_v:aux|aby_být-1&PL&cond&akt&impf"
      <<S("abychom"), S("conj:sub_v:aux|aby_b{00FD}t-1&PL&cond&akt&impf")>>,
    \* "abyste": "conj:sub_v:aux|aby_být-2&PL&cond&akt&impf"
      <<S("abyste"), S("conj:sub_v:aux|aby_b{00FD}t-2&PL&cond&akt&impf")>>,
    \* "abysme": "conj:sub_v:aux|aby_být-1&PL&cond&akt&impf"
      <<S("abysme"), S("conj:sub_v:aux|aby_b{00FD}t-1&PL&cond&akt&impf")>>,
    \* "kdybych": "conj:sub_v:aux|kdyby_být-1&SG&cond&akt&impf"
      <<S("kdybych"), S("conj:sub_v:aux|kdyby_b{00FD}t-1&SG&cond&akt&impf")>>,
    \* "kdybysem": "conj:sub_v:aux|kdyby_být-1&SG&cond&akt&impf"
      <<S("kdybysem"), S("conj:sub_v:aux|kdyby_b{00FD}t-1&SG&cond&akt&impf")>>,
    \* "kdybys": "conj:sub_v:aux|kdyby_být-2&SG&cond&akt&impf"
      <<S("kdybys"), S("conj:sub_v:aux|kdyby_b{00FD}t-2&SG&cond&akt&impf")>>,
    \* "kdybysi": "conj:sub_v:aux|kdyby_být-2&SG&cond&akt&impf"
      <<S("kdybysi"), S("conj:sub_v:aux|kdyby_b{00FD}t-2&SG&cond&akt&impf")>>,
    \* "kdyby": "conj:sub_v:aux|kdyby_být-3&x_cislo&cond&akt&impf"
      <<S("kdyby"), S("conj:sub_v:aux|kdyby_b{00FD}t-3&x_cislo&cond&akt&impf")>>,
    \* "kdybychom": "conj:sub_v:aux|kdyby_být-1&PL&cond&akt&impf"
      <<S("kdybychom"), S("conj:sub_v:aux|kdyby_b{00FD}t-1&PL&cond&akt&impf")>>,
    \* "kdybysme": "conj:sub_v:aux|kdyby_být-1&PL&cond&akt&impf"
      <<S("kdybysme"), S("conj:sub_v:aux|kdyby_b{00FD}t-1&PL&cond&akt&impf")>>,
    \* "kdybyste": "conj:sub_v:aux|kdyby_být-2&PL&cond&akt&impf"
      <<S("kdybyste"), S("conj:sub_v:aux|kdyby_b{00FD}t-2&PL&cond&akt&impf")>>,
    \* "ses": "pro:refl_v:aux|se_být-4&SG_2&SG&ind&pres&akt&impf"
      <<S("ses"), S("pro:refl_v:aux|se_b{00FD}t-4&SG_2&SG&ind&pres&akt&impf")>>,
    \* "sis": "pro:refl_v:aux|se_být-3&SG_2&SG&ind&pres&akt&impf"
      <<S("sis"), S("pro:refl_v:aux|se_b{00FD}t-3&SG_2&SG&ind&pres&akt&impf")>>,
    \* "zač": "prep_pro:int|za_co-4&SG&N"
      <<S("za{010D}"), S("prep_pro:int|za_co-4&SG&N")>>,
    \* "nač": "prep_pro:int|na_co-4&SG&N"
      <<S("na{010D}"), S("prep_pro:int|na_co-4&SG&N")>>,
    \* "oč": "prep_pro:int|o_co-4&SG&N"
      <<S("o{010D}"), S("prep_pro:int|o_co-4&SG&N")>>,
    \* "li": "part|li"
      <<S("li"), S("part|li")>>,
    \* "emem": "int|emem"
      <<S("emem"), S("int|emem")>>,
    \* "hají": "int|hají"
      <<S("haj{00ED}"), S("int|haj{00ED}")>>>>

ADJ_ADV_COMPDEG_LEMMA_OVERRIDES ==
    \* lepší -> dobrý
    <<<<S("lep{0161}{00ED}"), S("dobr{00FD}")>>,
    \* nejlepší -> dobrý
      <<S("nejlep{0161}{00ED}"), S("dobr{00FD}")>>,
    \* horší -> špatný
      <<S("hor{0161}{00ED}"), S("{0161}patn{00FD}")>>,
    \* nejhorší -> špatný
      <<S("nejhor{0161}{00ED}"), S("{0161}patn{00FD}")>>,
    \* delší -> dlouhý
      <<S("del{0161}{00ED}"), S("dlouh{00FD}")>>,
    \* nejdelší -> dlouhý
      <<S("nejdel{0161}{00ED}"), S("dlouh{00FD}")>>,
    \* menší -> malý
      <<S("men{0161}{00ED}"), S("mal{00FD}")>>,
    \* nejmenší -> malý
      <<S("nejmen{0161}{00ED}"), S("mal{00FD}")>>,
    \* větší -> velký
      <<S("v{011B}t{0161}{00ED}"), S("velk{00FD}")>>,
    \* největší -> velký
      <<S("nejv{011B}t{0161}{00ED}"), S("velk{00FD}")>>,
    \* lépe -> dobře
      <<S("l{00E9}pe"), S("dob{0159}e")>>,
    \* líp -> dobře
      <<S("l{00ED}p"), S("dob{0159}e")>>,
    \* nejlépe -> dobře
      <<S("nejl{00E9}pe"), S("dob{0159}e")>>,
    \* nejlíp -> dobře
      <<S("nejl{00ED}p"), S("dob{0159}e")>>,
    \* hůře -> špatně
      <<S("h{016F}{0159}e"), S("{0161}patn{011B}")>>,
    \* hůř -> špatně
      <<S("h{016F}{0159}"), S("{0161}patn{011B}")>>,
    \* nejhůře -> špatně
      <<S("nejh{016F}{0159}e"), S("{0161}patn{011B}")>>,
    \* nejhůř -> špatně
      <<S("nejh{016F}{0159}"), S("{0161}patn{011B}")>>,
    \* dříve -> brzy
      <<S("d{0159}{00ED}ve"), S("brzy")>>,
    \* dřív -> brzy
      <<S("d{0159}{00ED}v"), S("brzy")>>,
    \* dřívěji -> brzy
      <<S("d{0159}{00ED}v{011B}ji"), S("brzy")>>,
    \* dřívějc -> brzy
      <<S("d{0159}{00ED}v{011B}jc"), S("brzy")>>,
    \* nejdříve -> brzy
      <<S("nejd{0159}{00ED}ve"), S("brzy")>>,
    \* nejdřív -> brzy
      <<S("nejd{0159}{00ED}v"), S("brzy")>>,
    \* nejdřívěji -> brzy
      <<S("nejd{0159}{00ED}v{011B}ji"), S("brzy")>>,
    \* nejdřívějc -> brzy
      <<S("nejd{0159}{00ED}v{011B}jc"), S("brzy")>>,
    \* déle -> dlouho
      <<S("d{00E9}le"), S("dlouho")>>,
    \* dýl -> dlouho
      <<S("d{00FD}l"), S("dlouho")>>,
    \* nejdéle -> dlouho
      <<S("nejd{00E9}le"), S("dlouho")>>,
    \* nejdýl -> dlouho
      <<S("nejd{00FD}l"), S("dlouho")>>,
    \* výše -> vysoko
      <<S("v{00FD}{0161}e"), S("vysoko")>>,
    \* výš -> vysoko
      <<S("v{00FD}{0161}"), S("vysoko")>>,
    \* vejš -> vysoko
      <<S("vej{0161}"), S("vysoko")>>,
    \* nejvýše -> vysoko
      <<S("nejv{00FD}{0161}e"), S("vysoko")>>,
    \* nejvýš -> vysoko
      <<S("nejv{00FD}{0161}"), S("vysoko")>>,
    \* nejvejš -> vysoko
      <<S("nejvej{0161}"), S("vysoko")>>,
    \* méně -> málo
      <<S("m{00E9}n{011B}"), S("m{00E1}lo")>>,
    \* míň -> málo
      <<S("m{00ED}{0148}"), S("m{00E1}lo")>>,
    \* nejméně -> málo
      <<S("nejm{00E9}n{011B}"), S("m{00E1}lo")>>,
    \* nejmíň -> málo
      <<S("nejm{00ED}{0148}"), S("m{00E1}lo")>>,
    \* více -> hodně
      <<S("v{00ED}ce"), S("hodn{011B}")>>,
    \* víc -> hodně
      <<S("v{00ED}c"), S("hodn{011B}")>>,
    \* nejvíce -> hodně
      <<S("nejv{00ED}ce"), S("hodn{011B}")>>,
    \* nejvíc -> hodně
      <<S("nejv{00ED}c"), S("hodn{011B}")>>,
    \* tíž -> těžce
      <<S("t{00ED}{017E}"), S("t{011B}{017E}ce")>>,
    \* tíže -> těžce
      <<S("t{00ED}{017E}e"), S("t{011B}{017E}ce")>>,
    \* tížeji -> těžce
      <<S("t{00ED}{017E}eji"), S("t{011B}{017E}ce")>>,
    \* nejtíž -> těžce
      <<S("nejt{00ED}{017E}"), S("t{011B}{017E}ce")>>,
    \* nejtíže -> těžce
      <<S("nejt{00ED}{017E}e"), S("t{011B}{017E}ce")>>,
    \*  nejtížeji -> těžce
      <<S(" nejt{00ED}{017E}eji"), S("t{011B}{017E}ce")>>,
    \* snáz -> snadno
      <<S("sn{00E1}z"), S("snadno")>>,
    \* snáze -> snadno
      <<S("sn{00E1}ze"), S("snadno")>>,
    \* snázeji -> snadno
      <<S("sn{00E1}zeji"), S("snadno")>>,
    \* snadněji -> snadno
      <<S("snadn{011B}ji"), S("snadno")>>,
    \* snadnějc -> snadno
      <<S("snadn{011B}jc"), S("snadno")>>,
    \* nejsnáz -> snadno
      <<S("nejsn{00E1}z"), S("snadno")>>,
    \* nejsnáze -> snadno
      <<S("nejsn{00E1}ze"), S("snadno")>>,
    \* nejsnadněji -> snadno
      <<S("nejsnadn{011B}ji"), S("snadno")>>,
    \* nejsnadnějc -> snadno
      <<S("nejsnadn{011B}jc"), S("snadno")>>,
    \* hloub -> hluboko
      <<S("hloub"), S("hluboko")>>,
    \* hlouběji -> hluboko
      <<S("hloub{011B}ji"), S("hluboko")>>,
    \* hloubějc -> hluboko
      <<S("hloub{011B}jc"), S("hluboko")>>,
    \* nejhloub -> hluboko
      <<S("nejhloub"), S("hluboko")>>,
    \* nejhlouběji -> hluboko
      <<S("nejhloub{011B}ji"), S("hluboko")>>,
    \* nejhloubějc -> hluboko
      <<S("nejhloub{011B}jc"), S("hluboko")>>,
    \* šíře -> široko
      <<S("{0161}{00ED}{0159}e"), S("{0161}iroko")>>,
    \* šíř -> široko
      <<S("{0161}{00ED}{0159}"), S("{0161}iroko")>>,
    \* šířeji -> široko
      <<S("{0161}{00ED}{0159}eji"), S("{0161}iroko")>>,
    \* šířejc -> široko
      <<S("{0161}{00ED}{0159}ejc"), S("{0161}iroko")>>,
    \* nejšíře -> široko
      <<S("nej{0161}{00ED}{0159}e"), S("{0161}iroko")>>,
    \* nejšíř -> široko
      <<S("nej{0161}{00ED}{0159}"), S("{0161}iroko")>>,
    \* nejšířeji -> široko
      <<S("nej{0161}{00ED}{0159}eji"), S("{0161}iroko")>>,
    \* nejšířejc -> široko
      <<S("nej{0161}{00ED}{0159}ejc"), S("{0161}iroko")>>,
    \* úže -> úzce
      <<S("{00FA}{017E}e"), S("{00FA}zce")>>,
    \* úžeji -> úzce
      <<S("{00FA}{017E}eji"), S("{00FA}zce")>>,
    \* úžejc -> úzce
      <<S("{00FA}{017E}ejc"), S("{00FA}zce")>>,
    \* nejúže -> úzce
      <<S("nej{00FA}{017E}e"), S("{00FA}zce")>>,
    \* nejúžeji -> úzce
      <<S("nej{00FA}{017E}eji"), S("{00FA}zce")>>,
    \* nejúžejc -> úzce
      <<S("nej{00FA}{017E}ejc"), S("{00FA}zce")>>>>

(***************************************************************************)
(* Python values: dicts, str.join, str.capitalize, f-string formatting     *)
(***************************************************************************)
\* key in d
Has(d, k) == \E i \in DOMAIN d : d[i][1] = k
\* d[key]
Get(d, k) == d[MaxOf({i \in DOMAIN d : d[i][1] = k})][2]
\* {key: v for key in keys}
ForEach(keys, v) == [i \in DOMAIN keys |-> <<keys[i], v>>]

RECURSIVE Join(_, _)
\* delim.join(parts)
Join(delim, parts) ==
    IF Len(parts) = 0 THEN <<>>
    ELSE IF Len(parts) = 1 THEN parts[1]
    ELSE parts[1] \o delim \o Join(delim, Tail(parts))

ToUpper(c) ==
    IF \E p \in CasePairs : p[1] = c
    THEN (CHOOSE p \in CasePairs : p[1] = c)[2] ELSE c
ToLower(c) ==
    IF \E p \in CasePairs : p[2] = c
    THEN (CHOOSE p \in CasePairs : p[2] = c)[1] ELSE c
\* word.capitalize()
capitalize(word) ==
    [i \in DOMAIN word |-> IF i = 1 THEN ToUpper(word[i]) ELSE ToLower(word[i])]

\* a value that is a string, a value that is a dict, a raised KeyError
PyStr(s) == [type |-> "str", str |-> s, dict |-> <<>>]
PyDict(d) == [type |-> "dict", str |-> <<>>, dict |-> d]
KeyError == [type |-> "KeyError", str |-> <<>>, dict |-> <<>>]

\* str(d) of a dict of strings
DictRepr(d) ==
    <<"{">> \o Join(S(", "), [i \in DOMAIN d |->
                       S("'") \o d[i][1] \o S("': '") \o d[i][2] \o S("'")])
      \o <<"}">>
\* the text an f-string puts for {v}
Format(v) == IF v.type = "dict" THEN DictRepr(v.dict) ELSE v.str

(***************************************************************************)
(* annot_util/replacement_rules.py: derived tables                         *)
(***************************************************************************)
MOR_MLEMMAS_LEMMA_OVERRIDES ==
    <<<<S("lid{00E9}"), S("{010D}lov{011B}k")>>>> \o ADJ_ADV_COMPDEG_LEMMA_OVERRIDES

\* {word: word_list[0] for word in word_list}
ToFirst(word_list) == ForEach(word_list, word_list[1])

MOR_WORDS_LEMMA_OVERRIDES ==
    ToFirst(POSS_PRONOUN_3PL) \o ToFirst(POSS_PRONOUN_M_N_3SG)
      \o ToFirst(POSS_PRONOUN_F_3SG) \o <<<<S("zem"), S("zem")>>>>

\* the entry of lemma "být": per-word labels and the default "_"
BytWordsCop ==
    <<S("je"), S("jsou"), S("se{0161}"), S("nejsem"), S("nejsi"),
      S("nen{00ED}"), S("nejsme"), S("nejste"), S("nejsou"), S("bu{010F}"),
      S("bu{010F}me"), S("bu{010F}te"), S("nebu{010F}"), S("nebu{010F}me"),
      S("nebu{010F}te"), S("b{00FD}t"), S("neb{00FD}t"), S("byl"), S("byla"),
      S("bylo"), S("byli"), S("byly"), S("nebyl"), S("nebyla"), S("nebylo"),
      S("nebyli"), S("nebyly")>>

Default(pos) == <<<<S("_"), pos>>>>

MOR_POS_OVERRIDES ==
    ForEach(PRONOMINAL_ADVERBS, Default(S("adv:pro")))
      \o ForEach(NEGATIVE_PRONOMINAL_ADVERBS, Default(S("adv:pro:neg")))
      \o ForEach(PLURAL_INVARIABLE_NOUNS \o PLURAL_INVARIABLE_PROPER_NOUNS,
                 Default(S("n:pt")))
      \o ForEach(MODAL_VERBS, Default(S("v:mod")))
      \o <<<<S("ka{017E}d{00FD}"), Default(S("pro:indef"))>>,
           <<S("sv{016F}j"), Default(S("pro:refl:poss"))>>,
           <<S("{010D}{00ED}"), Default(S("pro:int:poss"))>>,
           <<S("b{00FD}t"), ForEach(BytWordsCop, S("v:cop")) \o Default(S("v:x"))>>,
           <<S("cht{00ED}t"), Default(S("v:x"))>>,
           <<S("m{00ED}t"), Default(S("v:x"))>>>>

SKIP_LINES == <<S("."), S("0 ."), S("+/."), S("+..."), S("!"), S("?")>>

(***************************************************************************)
(* constants.py                                                            *)
(***************************************************************************)
GRAMMATICAL_CATEGORY_ORDER ==
    <<"form_type", "case", "person", "number", "mood", "tense", "voice",
      "gender", "aspect">>

LEXICAL_CATEGORY_ORDER == <<"comp_deg", "negation">>

EMPTY_GRAM_CAT_DEFAULT ==
    [case |-> S("x_pad"), person |-> S("x_osoba"), number |-> S("x_cislo"),
     mood |-> S("x_zpusob"), tense |-> S("x_cas"),
     voice |-> S("x_slovesny_rod"), aspect |-> S("x_vid"),
     gender |-> S("x_jmenny_rod")]

(***************************************************************************)
(* annot_util/conversions.py: generate_mor_pos_label                       *)
(* A token is [word, lemma, tag, flags]; tag[k] of the source is           *)
(* At(tag, k).                                                             *)
(***************************************************************************)
At(tag, k) == tag[k + 1]

generate_mor_pos_label(token) ==
    LET word == token.word
        lemma == token.lemma
        tag == token.tag
        t1 == At(tag, 1)
        result ==
            CASE At(tag, 0) = "N" ->
                    IF "quotation_beginning" \notin token.flags
                         /\ word = capitalize(word)
                    THEN S("n:prop") ELSE S("n")
              [] At(tag, 0) = "A" ->
                    CASE t1 = "C" -> S("adj:short")
                      [] t1 = "U" -> S("adj:poss")
                      [] OTHER -> S("adj")
              [] At(tag, 0) = "P" ->
                    CASE t1 = "D" -> S("pro:dem")
                      [] t1 \in {"5", "E", "H", "P"} -> S("pro:pers")
                      [] t1 = "1" -> S("pro:rel")
                      [] t1 \in {"4", "Q"} -> S("pro:rel/int")
                      [] t1 \in {"S", "9"} -> S("pro:poss")
                      [] t1 \in {"W", "Y"} -> S("pro:neg")
                      [] t1 \in {"K", "L", "Z"} -> S("pro:indef")
                      [] t1 \in {"6", "7"} -> S("pro:refl")
                      [] OTHER -> S("pro")
              [] At(tag, 0) = "C" ->
                    CASE t1 \in {"l", "n", "z", "a", "y"} -> S("num:card")
                      [] t1 \in {"r", "w"} -> S("num:ord")
                      [] t1 \in {"v", "o"} -> S("num:mult")
                      [] OTHER -> S("num")
              [] At(tag, 0) = "V" -> S("v")
              [] At(tag, 0) = "D" -> S("adv")
              [] At(tag, 0) = "R" -> S("prep")
              [] At(tag, 0) = "J" ->
                    CASE t1 \in {"^", "*"} -> S("conj:coord")
                      [] t1 = "," -> S("conj:sub")
                      [] OTHER -> <<>>
              [] At(tag, 0) = "T" -> S("part")
              [] At(tag, 0) = "I" -> S("int")
              [] At(tag, 0) = "Z" -> S("Z")
              [] OTHER -> S("x")
    IN IF Has(MOR_POS_OVERRIDES, lemma)
       THEN PyDict(Get(MOR_POS_OVERRIDES, lemma))
       ELSE IF lemma \in {S("tak"), S("proto")} /\ result = S("adv")
            THEN PyStr(S("adv:pro"))
            ELSE PyStr(result)

(***************************************************************************)
(* annot_util/conversions.py: generate_mor_tag                             *)
(* grcats and lxcats are functions from the categories present to their    *)
(* values.                                                                 *)
(***************************************************************************)
NoCats == [c \in {} |-> <<>>]
\* categories[cat] = value
Put(categories, cat, value) ==
    [c \in DOMAIN categories \cup {cat} |->
        IF c = cat THEN value ELSE categories[c]]
\* del categories[cat]
Del(categories, cat) ==
    [c \in DOMAIN categories \ {cat} |-> categories[c]]

_get_default_cat(category) == EMPTY_GRAM_CAT_DEFAULT[category]

\* categories unchanged: no default is filled in
_require_cats_nofill(categories, requirements) == categories

_require_cats(categories, requirements) ==
    [c \in DOMAIN categories \cup requirements |->
        IF c \in DOMAIN categories THEN categories[c] ELSE _get_default_cat(c)]

\* "if cond: categories[cat] = value"
PutIf(categories, cond, cat, value) ==
    IF cond THEN Put(categories, cat, value) ELSE categories

\* "if cond: del categories[cat]"
DelIf(categories, cond, cat) ==
    IF cond THEN Del(categories, cat) ELSE categories

\* lines 260-386: the grammatical categories of a verb tag
VerbCats(tag) ==
    LET g1 == PutIf(NoCats, At(tag, 2) \in {"I", "M", "Y", "F", "N"}, "gender",
                    CASE At(tag, 2) = "F" -> S("F")
                      [] At(tag, 2) = "N" -> S("N")
                      [] OTHER -> S("M"))
        g2 == PutIf(g1, At(tag, 3) \in {"S", "P"}, "number",
                    IF At(tag, 3) = "S" THEN S("SG") ELSE S("PL"))
        g3 == PutIf(g2, At(tag, 7) \in {"1", "2", "3"}, "person", <<At(tag, 7)>>)
        g4 == PutIf(g3, At(tag, 8) \in {"F", "P", "R"}, "tense",
                    CASE At(tag, 8) = "F" -> S("futur")
                      [] At(tag, 8) = "P" -> S("pres")
                      [] OTHER -> S("past"))
        g5 == PutIf(g4, At(tag, 11) \in {"A", "P"}, "voice",
                    IF At(tag, 11) = "A" THEN S("akt") ELSE S("pas"))
        g6 == PutIf(g5, At(tag, 12) \in {"P", "I", "B"}, "aspect",
                    CASE At(tag, 12) = "P" -> S("pf")
                      [] At(tag, 12) = "I" -> S("impf")
                      [] OTHER -> S("biasp"))
        f == At(tag, 1)
    IN CASE f = "f" ->
              _require_cats(Put(g6, "form_type", S("inf")), {"form_type", "aspect"})
         [] f \in {"p", "q"} ->
              _require_cats(g6, {"number", "tense", "voice", "gender", "aspect"})
         [] f = "s" ->
              _require_cats(g6, {"number", "voice", "gender", "aspect"})
         [] f = "c" ->
              _require_cats(Put(g6, "mood", S("cond")),
                            {"person", "number", "mood", "voice", "aspect"})
         [] f = "i" ->
              _require_cats(Put(Put(g6, "mood", S("imp")), "voice", S("akt")),
                            {"person", "number", "mood", "voice", "aspect"})
         [] f \in {"B", "t"} ->
              _require_cats(Put(g6, "mood", S("ind")),
                            {"person", "number", "mood", "tense", "voice", "aspect"})
         [] f \in {"e", "m"} ->
              _require_cats(Put(Put(g6, "form_type", S("trans")), "voice", S("akt")),
                            {"form_type", "number", "voice", "gender", "aspect"})
         [] OTHER -> g6

\* the dual not folded into the plural
NominalCats_nodual(tag) ==
    LET g1 == PutIf(NoCats, At(tag, 2) \in {"M", "I", "Y", "F", "N"}, "gender",
                    CASE At(tag, 2) = "M" -> IF At(tag, 0) = "N" THEN S("MA") ELSE S("M")
                      [] At(tag, 2) = "I" -> IF At(tag, 0) = "N" THEN S("MI") ELSE S("M")
                      [] At(tag, 2) = "F" -> S("F")
                      [] At(tag, 2) = "N" -> S("N")
                      [] OTHER -> S("M"))
        g2 == PutIf(g1, At(tag, 3) \in {"S", "P"}, "number",
                    IF At(tag, 3) = "S" THEN S("SG") ELSE S("PL"))
        g3 == PutIf(g2, At(tag, 4) \in Digit, "case", <<At(tag, 4)>>)
    IN _require_cats(g3, {"gender", "number", "case"})

\* lines 389-415: the grammatical categories of a noun, adjective, pronoun
\* or numeral tag
NominalCats(tag) ==
    LET g1 == PutIf(NoCats, At(tag, 2) \in {"M", "I", "Y", "F", "N"}, "gender",
                    CASE At(tag, 2) = "M" ->
                           IF At(tag, 0) = "N" THEN S("MA") ELSE S("M")
                      [] At(tag, 2) = "I" ->
                           IF At(tag, 0) = "N" THEN S("MI") ELSE S("M")
                      [] At(tag, 2) = "F" -> S("F")
                      [] At(tag, 2) = "N" -> S("N")
                      [] OTHER -> S("M"))
        g2 == PutIf(g1, At(tag, 3) \in {"S", "P", "D"}, "number",
                    IF At(tag, 3) = "S" THEN S("SG") ELSE S("PL"))
        g3 == PutIf(g2, At(tag, 4) \in Digit, "case", <<At(tag, 4)>>)
    IN _require_cats(g3, {"gender", "number", "case"})

LemmasNeuter == {S("co"), S("n{011B}co"), S("nic")}
LemmasMasculine ==
    {S("kdo"), S("n{011B}kdo"), S("nikdo"), S("kdokoli"), S("kdokoliv"),
     S("kdosi"), S("kdopak")}
LemmasSingular == LemmasMasculine \cup LemmasNeuter \cup {S("se")}
LemmasNoGender == {S("j{00E1}"), S("my"), S("ty"), S("vy"), S("se")}

\* [d[cat] for cat in order if cat in d]
ValuesInOrder(order, d) ==
    LET present == SelectSeq(order, LAMBDA c : c \in DOMAIN d)
    IN [i \in DOMAIN present |-> d[present[i]]]

generate_mor_tag(token) ==
    LET tag == token.tag
        lemma == token.lemma
        lx1 == PutIf(NoCats, At(tag, 10) = "N", "negation", S("neg"))
        g1 == IF At(tag, 0) = "V" THEN VerbCats(tag)
              ELSE IF At(tag, 0) \in {"N", "A", "P", "C"}
                        /\ ~(At(tag, 0) = "C" /\ At(tag, 1) = "v")
                   THEN NominalCats(tag)
                   ELSE NoCats
        lxcats == PutIf(lx1, At(tag, 0) \in {"A", "D"} /\ At(tag, 9) \in {"2", "3"},
                        "comp_deg",
                        IF At(tag, 9) = "2" THEN S("CP") ELSE S("SP"))
        g2 == PutIf(g1, lemma \in LemmasNeuter, "gender", S("N"))
        g3 == PutIf(g2, lemma \in LemmasMasculine, "gender", S("M"))
        g4 == PutIf(g3, lemma \in LemmasSingular, "number", S("SG"))
        grcats == DelIf(g4, lemma \in LemmasNoGender, "gender")
        gr_joined == Join(S("&"), ValuesInOrder(GRAMMATICAL_CATEGORY_ORDER, grcats))
        lex_join == Join(S("-"), ValuesInOrder(LEXICAL_CATEGORY_ORDER, lxcats)
                                   \o <<gr_joined>>)
    IN IF lemma \in LemmasNoGender /\ "gender" \notin DOMAIN g4
       THEN KeyError
       ELSE PyStr(lex_join)

(***************************************************************************)
(* annotation.py: construct_mor_word                                       *)
(***************************************************************************)
\* lines 99-115
GenericComposition(token, pos_label) ==
    LET _tag == generate_mor_tag(token)
        new_tag == IF _tag.str # <<>> THEN S("-") \o _tag.str ELSE <<>>
        lemma1 == IF Has(MOR_MLEMMAS_LEMMA_OVERRIDES, token.lemma)
                  THEN Get(MOR_MLEMMAS_LEMMA_OVERRIDES, token.lemma)
                  ELSE token.lemma
        lemma == IF Has(MOR_WORDS_LEMMA_OVERRIDES, token.word)
                 THEN Get(MOR_WORDS_LEMMA_OVERRIDES, token.word)
                 ELSE IF "neologism" \in token.flags THEN token.word
                 ELSE lemma1
    IN IF _tag.type = "KeyError" THEN KeyError
       ELSE PyStr(Format(pos_label) \o S("|") \o lemma \o new_tag)

\* the full-word override table consulted before the flags
construct_mor_word_tablefirst(token) ==
    LET pos_label == generate_mor_pos_label(token)
    IN IF pos_label = PyStr(S("Z"))
       THEN PyStr(IF token.lemma = S(",") THEN S("cm|cm") ELSE token.lemma)
       ELSE IF Has(MOR_WORDS_OVERRIDES, token.word)
       THEN PyStr(Get(MOR_WORDS_OVERRIDES, token.word))
       ELSE IF "interjection" \in token.flags
       THEN PyStr(S("int|") \o token.word)
       ELSE IF "neologism" \in token.flags
       THEN PyStr(S("x|") \o token.word \o S("-neo"))
       ELSE IF "foreign" \in token.flags
       THEN PyStr(S("x|") \o token.word \o S("-for"))
       ELSE GenericComposition(token, pos_label)

\* the full-word override table never consulted
construct_mor_word_nooverride(token) ==
    LET pos_label == generate_mor_pos_label(token)
    IN IF pos_label = PyStr(S("Z"))
       THEN PyStr(IF token.lemma = S(",") THEN S("cm|cm") ELSE token.lemma)
       ELSE IF "interjection" \in token.flags
       THEN PyStr(S("int|") \o token.word)
       ELSE IF "neologism" \in token.flags
       THEN PyStr(S("x|") \o token.word \o S("-neo"))
       ELSE IF "foreign" \in token.flags
       THEN PyStr(S("x|") \o token.word \o S("-for"))
       ELSE GenericComposition(token, pos_label)

construct_mor_word(token) ==
    LET pos_label == generate_mor_pos_label(token)
    IN IF pos_label = PyStr(S("Z"))
       THEN PyStr(IF token.lemma = S(",") THEN S("cm|cm") ELSE token.lemma)
       ELSE IF "interjection" \in token.flags
       THEN PyStr(S("int|") \o token.word)
       ELSE IF "neologism" \in token.flags
       THEN PyStr(S("x|") \o token.word \o S("-neo"))
       ELSE IF "foreign" \in token.flags
       THEN PyStr(S("x|") \o token.word \o S("-for"))
       ELSE IF Has(MOR_WORDS_OVERRIDES, token.word)
       THEN PyStr(Get(MOR_WORDS_OVERRIDES, token.word))
       ELSE GenericComposition(token, pos_label)

(***************************************************************************)
(* annot_util/morphodita_tools.py: the MorphoDiTa tokenizer and tagger are *)
(* an external library; a stand-in with a small dictionary takes their     *)
(* place: words are runs of letters and digits, every other non-blank      *)
(* character is a token of its own                                         *)
(***************************************************************************)
WordChar == Letter \cup Digit

TokenSpans(string) ==
    LET n == Len(string)
        isw(k) == k >= 1 /\ k <= n /\ string[k] \in WordChar
    IN {ab \in (1..n) \X (1..n) :
            /\ ab[1] <= ab[2]
            /\ \/ /\ \A k \in ab[1]..ab[2] : isw(k)
                  /\ ~isw(ab[1] - 1) /\ ~isw(ab[2] + 1)
               \/ /\ ab[1] = ab[2]
                  /\ string[ab[1]] \notin WordChar \cup Whitespace}

\* list(tokenizer.tokenize(string)), each token as a string
tokenize_string(string) ==
    LET spans == TokenSpans(string)
        nth(i) == CHOOSE sp \in spans :
                     Cardinality({t \in spans : t[1] < sp[1]}) = i - 1
    IN [i \in 1..Cardinality(spans) |-> SubSeq(string, nth(i)[1], nth(i)[2])]

\* the dictionary of the stand-in tagger: <<lemma, tag>> of a word
Lexicon(word) ==
    CASE word = S("ne") -> <<S("ne"), S("TT-------------")>>
      [] word = S("haf") -> <<S("haf"), S("II-------------")>>
      [] word = S("to") -> <<S("ten"), S("PDNS1----------")>>
      [] word = S("je") -> <<S("b{00FD}t"), S("VB-S---3P-AA---")>>
      [] word \in {S("m{00E1}ma"), S("M{00E1}ma")} ->
           <<S("m{00E1}ma"), S("NNFS1-----A----")>>
      [] Len(word) = 1 /\ word[1] \notin WordChar -> <<word, S("Z:-------------")>>
      [] OTHER -> <<word, S("X@-------------")>>

\* list(tagger.tag(string, convert="strip_lemma_id", guesser=guesser))
tag_string(string) ==
    LET words == tokenize_string(string)
    IN [i \in DOMAIN words |->
          [word |-> words[i], lemma |-> Lexicon(words[i])[1],
           tag |-> Lexicon(words[i])[2]]]

(***************************************************************************)
(* annotation.py: filter_tokens, mor_line                                  *)
(***************************************************************************)
EndsWith(s, suffix) ==
    Len(suffix) <= Len(s) /\ SubSeq(s, Len(s) - Len(suffix) + 1, Len(s)) = suffix

RECURSIVE ReplaceFrom(_, _, _, _)
ReplaceFrom(s, old, new, i) ==
    LET found == {j \in i..(Len(s) - Len(old) + 1) :
                     SubSeq(s, j, j + Len(old) - 1) = old}
    IN IF found = {} THEN SubSeq(s, i, Len(s))
       ELSE SubSeq(s, i, MinOf(found) - 1) \o new
              \o ReplaceFrom(s, old, new, MinOf(found) + Len(old))

\* s.replace(old, new)
Replace(s, old, new) == ReplaceFrom(s, old, new, 1)

QuoteOpen == <<"U+201C">>
QuoteClose == <<"U+201D">>

\* only the opening quotation mark left out
filter_tokens_open(tokens) ==
    SelectSeq(tokens, LAMBDA token : token.word # QuoteOpen)

filter_tokens(tokens) ==
    SelectSeq(tokens, LAMBDA token : token.word \notin {QuoteOpen, QuoteClose})

IndexError == [type |-> "IndexError", str |-> <<>>, dict |-> <<>>]

\* lines 161-176: the flags of the tokens of the text with its placeholders
Flags(tokens) ==
    [i \in DOMAIN tokens |->
        (IF EndsWith(tokens[i], PLACEHOLDER_NEOLOGISM) THEN {"neologism"}
         ELSE IF EndsWith(tokens[i], PLACEHOLDER_FOREIGN) THEN {"foreign"}
         ELSE IF EndsWith(tokens[i], PLACEHOLDER_INTERJECTION) THEN {"interjection"}
         ELSE {})
        \cup (IF i > 1 /\ tokens[i - 1] = QuoteOpen
              THEN {"quotation_beginning"} ELSE {})]

\* lines 178-182: the placeholders removed from the text
RemovePlaceholders(text) ==
    Replace(Replace(Replace(text, PLACEHOLDER_NEOLOGISM, <<>>),
                    PLACEHOLDER_FOREIGN, <<>>),
            PLACEHOLDER_INTERJECTION, <<>>)

\* lines 184-187: FlaggedToken.from_token(token, flags[i]) for every token
\* of the tagger
FlaggedTokens(tokens, flags) ==
    [i \in DOMAIN tokens |->
        [word |-> tokens[i].word, lemma |-> tokens[i].lemma,
         tag |-> tokens[i].tag, flags |-> flags[i]]]

\* lines 189-192: construct_mor_word of every token
MorWords(tagged_tokens) ==
    [i \in DOMAIN tagged_tokens |-> construct_mor_word(tagged_tokens[i])]

\* lines 193-198: the words joined into the %mor line; a KeyError of
\* construct_mor_word leaves mor_line
MorText(result) ==
    IF \E i \in DOMAIN result : result[i].type = "KeyError" THEN KeyError
    ELSE PyStr(Replace(Replace(S("%mor:\t")
                                 \o Join(S(" "), [i \in DOMAIN result |-> result[i].str]),
                               S("+ . . ."), S("+...")),
                       S("+ / ."), S("+/.")))

\* flags[i] raises IndexError when the tagger returns more tokens than the
\* tokenizer found in the text with its placeholders
mor_line(text) ==
    LET flags == Flags(tokenize_string(text))
        tagged == tag_string(RemovePlaceholders(text))
    IN IF Len(tagged) > Len(flags) THEN IndexError
       ELSE MorText(MorWords(filter_tokens(FlaggedTokens(tagged, flags))))

(***************************************************************************)
(* annot_util/conversions.py: chat_to_plain_text                           *)
(***************************************************************************)
\* the value of a call: None, a string, or ChatToPlainTextConversionError
\* with its two attributes
RetNone == [kind |-> "None", val |-> <<>>, chat_line |-> <<>>, result |-> <<>>]
RetStr(v) == [kind |-> "str", val |-> v, chat_line |-> <<>>, result |-> <<>>]
ChatToPlainTextConversionError(chat_line, result) ==
    [kind |-> "ChatToPlainTextConversionError", val |-> <<>>,
     chat_line |-> chat_line, result |-> result]

RECURSIVE ApplyRules(_, _)
\* the for loop over rules.CHAT_TO_PLAIN_TEXT from rule k on, with its break
\* on an empty intermediate result
ApplyRules(result_intermediate, k) ==
    IF k > Len(CHAT_TO_PLAIN_TEXT)
    THEN [result_intermediate |-> result_intermediate, broke |-> FALSE]
    ELSE IF result_intermediate = <<>>
         THEN [result_intermediate |-> result_intermediate, broke |-> TRUE]
         ELSE ApplyRules(Sub(CHAT_TO_PLAIN_TEXT[k], result_intermediate), k + 1)

\* a loop that gives up after its first pass
LoopCondition_once(first_iteration, result) == first_iteration

\* the while condition
LoopCondition(first_iteration, result) ==
    first_iteration \/ (result # <<>> /\ ~Search(PLAIN_TEXT_CRITERIA, result))

\* needs_review taken after result was already overwritten
LoopBody_late(result) ==
    [result |-> ApplyRules(result, 1).result_intermediate,
     needs_review |-> FALSE]

\* needs_review set whatever the pass did
LoopBody_review(result) ==
    [result |-> ApplyRules(result, 1).result_intermediate,
     needs_review |-> TRUE]

\* one iteration of the while loop body that does not raise: the new
\* values of result and needs_review
LoopBody(result) ==
    LET a == ApplyRules(result, 1)
        result_at_compare == IF a.broke THEN a.result_intermediate ELSE result
    IN [result |-> a.result_intermediate,
        needs_review |-> a.result_intermediate # result_at_compare]

RECURSIVE WhileLoop(_, _, _, _)
WhileLoop(chat_line, result, first_iteration, needs_review) ==
    IF LoopCondition(first_iteration, result)
    THEN IF ~needs_review
         THEN ChatToPlainTextConversionError(chat_line, result)
         ELSE LET b == LoopBody(result)
              IN WhileLoop(chat_line, b.result, FALSE, b.needs_review)
    ELSE RetStr(result)

chat_to_plain_text(chat_line) ==
    IF chat_line = <<>> THEN RetNone
    ELSE WhileLoop(chat_line, chat_line, TRUE, TRUE)

(***************************************************************************)
(* State                                                                   *)
(***************************************************************************)
VARIABLES
    chat_line,        \* chat_to_plain_text: the argument
    result,           \* chat_to_plain_text: local result
    first_iteration,  \* chat_to_plain_text: local first_iteration
    needs_review,     \* chat_to_plain_text: local needs_review
    ret,              \* the value returned or the error raised by the call
    first_ret,        \* the value of the first call once it is fed back
    pc,               \* position in the call
    token,            \* the FlaggedToken handed to the classifier
    pos_label,        \* value of generate_mor_pos_label(token)
    mor_tag,          \* value of generate_mor_tag(token)
    mor_word,         \* value of construct_mor_word(token)
    tpc,              \* which of the three has been computed
    args,             \* _handle_args: the parsed command line
    _ecode,           \* _handle_args: local _ecode
    retval,           \* the value _handle_args returned, -1 before it returns
    stderr,           \* the last message written to sys.stderr
    nfiles,           \* number of input files taken from the list so far
    lineno,           \* number of lines read from source_fs so far
    line,             \* process_line: the stripped line
    line_plain_text,  \* process_line: local line_plain_text
    target_fs,        \* the lines printed to target_fs so far
    tagged,           \* the texts handed to the tagger for this stream
    hpc,              \* position in _handle_args / annotate_filestream
    raw_line,         \* annotate_filestream: the line as read from source_fs
    mor_text,         \* mor_line: the argument text
    mor_tokens,       \* mor_line: local tokens
    mor_flags,        \* mor_line: local flags
    tagged_tokens,    \* mor_line: local tagged_tokens
    mor_words,        \* mor_line: local result, the list of words
    mor_result,       \* mor_line: the value returned or the error raised
    mpc,              \* position in mor_line
    TAGGER_PATH,      \* constants.TAGGER_PATH
    TOKENIZER_TYPE,   \* constants.TOKENIZER_TYPE
    _taggers,         \* morphodita_tools._taggers
    _tokenizers,      \* morphodita_tools._tokenizers
    sys_argv,         \* sys.argv[1:]
    arguments,        \* the Namespace of parse_args or argument_walkthrough
    loaded,           \* the Tagger / Tokenizer instances constructed so far
    returned,         \* the calls of get_tagger / get_tokenizer with their results
    cpc,              \* position in the configuration of the run
    source_fs,        \* convert_filestream: the lines of the source
    pending,          \* convert_filestream: the lines of source_fs not yet read
    self_line,        \* LineComposer.line
    predicate_calls,  \* the arguments self.predicate was called with
    composed_fs,      \* LineComposer.target_fs
    lpc               \* position in convert_filestream

normVars == <<chat_line, result, first_iteration, needs_review, ret, first_ret, pc>>
tokVars == <<token, pos_label, mor_tag, mor_word, tpc>>
streamVars == <<args, _ecode, retval, stderr, nfiles, lineno, line,
                line_plain_text, target_fs, tagged, hpc, raw_line>>
morVars == <<mor_text, mor_tokens, mor_flags, tagged_tokens, mor_words,
             mor_result, mpc>>
toolVars == <<TAGGER_PATH, TOKENIZER_TYPE, _taggers, _tokenizers, sys_argv, arguments,
              loaded, returned, cpc>>
composerVars == <<source_fs, pending, self_line, predicate_calls, composed_fs, lpc>>
extVars == <<morVars, toolVars, composerVars>>
vars == <<normVars, tokVars, streamVars, extVars>>

(***************************************************************************)
(* Input lines of the model: up to MaxPieces pieces of CHAT markup         *)
(***************************************************************************)
MaxPieces == 3

Pieces ==
    {S("*CHI:\t"), S("@"), S("%"), S("Nee"), S("e"), S("xx"), S("x"), S("+<"),
     S(" "), S("."), S(",")}

RECURSIVE Concat(_)
Concat(ps) == IF Len(ps) = 0 THEN <<>> ELSE Head(ps) \o Concat(Tail(ps))

PieceLines ==
    {Concat(ps) : ps \in UNION {[1..n -> Pieces] : n \in 0..MaxPieces}}

\* the example lines of the documentation of the rules
ExampleLines ==
    {S("*CHI:\ttoho &vybavov{00E1} vybarvov{00E1}n{00ED}."),
     S("*MOT:\tkoupu 0se 0ve vod{011B} ."),
     S("*CHI:\tp{0159}i{0161}els [:p{0159}i{0161}el jsi] dom{016F}.")}

Lines == PieceLines \cup ExampleLines

NotCalled == [kind |-> "-", val |-> <<>>, chat_line |-> <<>>, result |-> <<>>]

(***************************************************************************)
(* chat_to_plain_text, statement by statement                              *)
(***************************************************************************)
NotComputed == [type |-> "-", str |-> <<>>, dict |-> <<>>]
NoToken == [word |-> <<>>, lemma |-> <<>>, tag |-> <<>>, flags |-> {}]

\* no call of the normaliser under way
NormIdle ==
    /\ chat_line = <<>>
    /\ result = <<>>
    /\ first_iteration = TRUE
    /\ needs_review = TRUE
    /\ ret = NotCalled
    /\ first_ret = NotCalled
    /\ pc = "idle"

\* no token under classification
TokIdle ==
    /\ token = NoToken
    /\ pos_label = NotComputed
    /\ mor_tag = NotComputed
    /\ mor_word = NotComputed
    /\ tpc = "idle"

\* the command line tool not started
StreamIdle ==
    /\ args = [std |-> FALSE, outdir |-> FALSE, indir |-> FALSE, inputfiles |-> FALSE]
    /\ _ecode = 0
    /\ retval = -1
    /\ stderr = ""
    /\ nfiles = 0
    /\ lineno = 0
    /\ line = <<>>
    /\ line_plain_text = NotCalled
    /\ target_fs = <<>>
    /\ tagged = <<>>
    /\ hpc = "idle"
    /\ raw_line = <<>>

\* no call of mor_line under way
MorIdle ==
    /\ mor_text = <<>>
    /\ mor_tokens = <<>>
    /\ mor_flags = <<>>
    /\ tagged_tokens = <<>>
    /\ mor_words = <<>>
    /\ mor_result = NotComputed
    /\ mpc = "idle"

\* constants.py lines 3-7
DefaultTaggerPath == "czech-morfflex2.0-pdtc1.0-220710/czech-morfflex2.0-pdtc1.0-220710.tagger"
DefaultTokenizerType == "czech"
None == "None"

\* morphodita_tools.py lines 11-12: a dict from a path or type to the number
\* of the instance (its place in the list of constructions)
EmptyDict == [key \in {} |-> 0]

\* the value of an nargs=1 option in a Namespace: None or a list of strings
NoList == [type |-> "NoneType", items |-> <<>>]
List(items) == [type |-> "list", items |-> items]

\* the configuration untouched, nothing loaded
ToolIdle ==
    /\ TAGGER_PATH = DefaultTaggerPath
    /\ TOKENIZER_TYPE = DefaultTokenizerType
    /\ _taggers = EmptyDict
    /\ _tokenizers = EmptyDict
    /\ sys_argv = <<>>
    /\ arguments = [tokenizer |-> NoList, tagger |-> NoList]
    /\ loaded = <<>>
    /\ returned = <<>>
    /\ cpc = "idle"

\* no LineComposer at work
ComposerIdle ==
    /\ source_fs = <<>>
    /\ pending = <<>>
    /\ self_line = <<>>
    /\ predicate_calls = <<>>
    /\ composed_fs = <<>>
    /\ lpc = "idle"

ExtIdle == MorIdle /\ ToolIdle /\ ComposerIdle

InitNorm ==
    /\ chat_line \in Lines
    /\ result = <<>>
    /\ first_iteration = TRUE
    /\ needs_review = TRUE
    /\ ret = NotCalled
    /\ first_ret = NotCalled
    /\ pc = "call"
    /\ TokIdle
    /\ StreamIdle
    /\ ExtIdle

\* lines 40-46
NormEnter ==
    /\ pc = "call"
    /\ IF chat_line = <<>>
       THEN /\ ret' = RetNone
            /\ pc' = "done"
            /\ UNCHANGED result
       ELSE /\ result' = chat_line
            /\ pc' = "while"
            /\ UNCHANGED ret
    /\ first_iteration' = TRUE
    /\ needs_review' = TRUE
    /\ UNCHANGED <<chat_line, first_ret, tokVars, streamVars, extVars>>

\* lines 50-56
NormRaise ==
    /\ pc = "while"
    /\ LoopCondition(first_iteration, result)
    /\ ~needs_review
    /\ ret' = ChatToPlainTextConversionError(chat_line, result)
    /\ pc' = "done"
    /\ UNCHANGED <<chat_line, result, first_iteration, needs_review, first_ret, tokVars, streamVars, extVars>>

\* lines 50-69
NormPass ==
    /\ pc = "while"
    /\ LoopCondition(first_iteration, result)
    /\ needs_review
    /\ LET b == LoopBody(result)
       IN /\ result' = b.result
          /\ needs_review' = b.needs_review
    /\ first_iteration' = FALSE
    /\ UNCHANGED <<chat_line, ret, first_ret, pc, tokVars, streamVars, extVars>>

\* lines 50-52, 71
NormReturn ==
    /\ pc = "while"
    /\ ~LoopCondition(first_iteration, result)
    /\ ret' = RetStr(result)
    /\ pc' = "done"
    /\ UNCHANGED <<chat_line, result, first_iteration, needs_review, first_ret, tokVars, streamVars, extVars>>

\* the caller passes a returned string to chat_to_plain_text once more
NormAgain ==
    /\ pc = "done"
    /\ first_ret = NotCalled
    /\ ret.kind = "str"
    /\ first_ret' = ret
    /\ chat_line' = ret.val
    /\ ret' = NotCalled
    /\ pc' = "call"
    /\ UNCHANGED <<result, first_iteration, needs_review, tokVars, streamVars, extVars>>

NextNorm == NormEnter \/ NormRaise \/ NormPass \/ NormReturn \/ NormAgain

SpecNorm == InitNorm /\ [][NextNorm]_vars

\* the call runs on, as a function call of one thread does: it is entered, and
\* while it is in the loop it takes the step of the loop that is due (in the
\* loop one of raising, passing and returning always is)
FairSpecNorm ==
    /\ InitNorm
    /\ [][NextNorm]_vars
    /\ WF_vars(NormEnter \/ NormAgain)
    /\ ([]<>(pc # "while") \/ []<><<NormRaise \/ NormPass \/ NormReturn>>_vars)


(***************************************************************************)
(* Tokens of the model: 15-character positional tags with the positions    *)
(* the classifier reads varied, combined with words and lemmas of every    *)
(* lexical class the classifier distinguishes                              *)
(***************************************************************************)
VerbTags ==
    {<<"V", f, g, n, "-", "-", "-", p, t, "-", ng, v, a, "-", "-">> :
        f \in {"B", "t", "f", "p", "q", "s", "c", "i", "e", "m", "-"},
        g \in {"-", "M"}, n \in {"-", "S"}, p \in {"-", "1"}, t \in {"-", "P"},
        ng \in {"-", "N"}, v \in {"-", "A", "P"}, a \in {"-", "P"}}

NominalTags ==
    {<<c[1], c[2], g, n, k, "-", "-", "-", "-", d, ng, "-", "-", "-", "-">> :
        c \in {<<"N", "N">>, <<"A", "A">>, <<"A", "C">>, <<"A", "U">>,
               <<"P", "P">>, <<"P", "D">>, <<"C", "l">>, <<"C", "v">>},
        g \in {"-", "M", "I", "F"}, n \in {"-", "S", "D"},
        k \in {"-", "4", "X"}, d \in {"-", "2"}, ng \in {"-", "N"}}

OtherTags ==
    {<<c, s, "-", "-", "-", "-", "-", "-", "-", d, ng, "-", "-", "-", "-">> :
        c \in {"D", "R", "J", "T", "I", "Z", "X"}, s \in {"-", "^", ",", "b"},
        d \in {"-", "2", "3"}, ng \in {"-", "N"}}

\* <<word, lemma>>: one lemma of each class of the special cases
TagWords ==
    {<<S("d{011B}l{00E1}m"), S("d{011B}lat")>>, <<S("j{00E1}"), S("j{00E1}")>>,
     <<S("co"), S("co")>>, <<S("kdo"), S("kdo")>>, <<S("se"), S("se")>>}

SampleTags ==
    {S("NNFS4-----A----"), S("Z:-------------"), S("VB-S---1P-AA---"),
     S("PP-S1--1-------"), S("Dg-------1N----")}

FlagWords ==
    TagWords \cup
    {<<S("Ma{0159}enku"), S("Ma{0159}enka")>>, <<S("r{00E1}d"), S("r{00E1}d")>>,
     <<S("je"), S("b{00FD}t")>>, <<S("m{016F}{017E}e"), S("moci")>>,
     <<S(","), S(",")>>, <<S("."), S(".")>>, <<S("tak"), S("tak")>>,
     <<S("lid{00E9}"), S("lid{00E9}")>>, <<S("jej{00ED}ho"), S("jeho")>>,
     <<S("r{00E1}d"), S("moci")>>}

tflag == {"interjection", "neologism", "foreign", "quotation_beginning"}

Tokens ==
    {[word |-> wl[1], lemma |-> wl[2], tag |-> tg, flags |-> {}] :
        wl \in TagWords, tg \in VerbTags \cup NominalTags \cup OtherTags}
    \cup
    {[word |-> wl[1], lemma |-> wl[2], tag |-> tg, flags |-> fl] :
        wl \in FlagWords, tg \in SampleTags, fl \in SUBSET tflag}

(***************************************************************************)
(* The classifier and the word builder applied to one token                *)
(***************************************************************************)
InitClassify ==
    /\ token \in Tokens
    /\ pos_label = NotComputed
    /\ mor_tag = NotComputed
    /\ mor_word = NotComputed
    /\ tpc = "token"
    /\ NormIdle
    /\ StreamIdle
    /\ ExtIdle

ClassifyLabel ==
    /\ tpc = "token"
    /\ pos_label' = generate_mor_pos_label(token)
    /\ tpc' = "label"
    /\ UNCHANGED <<token, mor_tag, mor_word, normVars, streamVars, extVars>>

ClassifyTag ==
    /\ tpc = "label"
    /\ mor_tag' = generate_mor_tag(token)
    /\ tpc' = "tag"
    /\ UNCHANGED <<token, pos_label, mor_word, normVars, streamVars, extVars>>

BuildWord ==
    /\ tpc = "tag"
    /\ mor_word' = construct_mor_word(token)
    /\ tpc' = "word"
    /\ UNCHANGED <<token, pos_label, mor_tag, normVars, streamVars, extVars>>

NextClassify == ClassifyLabel \/ ClassifyTag \/ BuildWord

SpecClassify == InitClassify /\ [][NextClassify]_vars

(***************************************************************************)
(* annotation.py: process_line, annotate_filestream, annotate_file,        *)
(* _handle_args.  The lines of a stream and the files of a batch are read  *)
(* one at a time; target_fs is the output of the stream being annotated.   *)
(***************************************************************************)
MaxLines == 2
MaxFiles == 2

StreamLines ==
    {S("@Begin\n"), S("%mor:\tx\n"), S("\n"), S("*CHI:\tNee .\n"),
     S("*CHI:\thaf@i . \n"), S("*CHI:\txxx .\n"), S("*CHI:\txxx\n"),
     S("*CHI:\tx # .\n"), S(" @Begin\n")}

\* line.strip(chars)
Strip(s, chars) ==
    LET keep == {k \in 1..Len(s) : s[k] \notin chars}
    IN IF keep = {} THEN <<>> ELSE SubSeq(s, MinOf(keep), MaxOf(keep))

\* only the header marker recognised
IsTier_header(l) == l # <<>> /\ l[1] = "@"

\* line.startswith(("@", "%"))
IsTier(l) == l # <<>> /\ l[1] \in {"@", "%"}

\* print(out, file=target_fs) with the new line put in front
Emit_front(fs, kind, n, text) ==
    <<[kind |-> kind, lineno |-> n, text |-> text]>> \o fs

\* print(out, file=target_fs); kind and n record which yield of
\* process_line, for which input line, the text comes from
Emit(fs, kind, n, text) ==
    Append(fs, [kind |-> kind, lineno |-> n, text |-> text])

\* the skip list ignored
ShouldAnnotate_nonempty(plain) == plain.kind = "str" /\ plain.val # <<>>

\* line_plain_text and not line_plain_text in rules.SKIP_LINES
ShouldAnnotate(plain) ==
    /\ plain.kind = "str"
    /\ plain.val # <<>>
    /\ \A i \in DOMAIN SKIP_LINES : SKIP_LINES[i] # plain.val

InitStream ==
    /\ args \in [std : BOOLEAN, outdir : BOOLEAN, indir : BOOLEAN,
                 inputfiles : BOOLEAN]
    /\ _ecode = 0
    /\ retval = -1
    /\ stderr = ""
    /\ nfiles = 0
    /\ lineno = 0
    /\ line = <<>>
    /\ line_plain_text = NotCalled
    /\ target_fs = <<>>
    /\ tagged = <<>>
    /\ hpc = "start"
    /\ raw_line = <<>>
    /\ NormIdle
    /\ TokIdle
    /\ ExtIdle

\* _handle_args, "if args.std": annotate_filestream(sys.stdin, sys.stdout)
HandleArgsStd ==
    /\ hpc = "start"
    /\ args.std
    /\ hpc' = "loop"
    /\ UNCHANGED <<args, raw_line, _ecode, retval, stderr, nfiles, lineno, line,
                   line_plain_text, target_fs, tagged, normVars, tokVars, extVars>>

\* "elif args.outdir" with an input directory or input files
HandleArgsFiles ==
    /\ hpc = "start"
    /\ ~args.std /\ args.outdir
    /\ args.indir \/ args.inputfiles
    /\ hpc' = "files"
    /\ UNCHANGED <<args, raw_line, _ecode, retval, stderr, nfiles, lineno, line,
                   line_plain_text, target_fs, tagged, normVars, tokVars, extVars>>

\* "elif args.outdir" without any input
HandleArgsNoInput ==
    /\ hpc = "start"
    /\ ~args.std /\ args.outdir
    /\ ~args.indir /\ ~args.inputfiles
    /\ stderr' = "Please specify your input files."
    /\ retval' = 2
    /\ hpc' = "returned"
    /\ UNCHANGED <<args, raw_line, _ecode, nfiles, lineno, line, line_plain_text,
                   target_fs, tagged, normVars, tokVars, extVars>>

\* neither --std nor an output directory
HandleArgsNoOutdir ==
    /\ hpc = "start"
    /\ ~args.std /\ ~args.outdir
    /\ stderr' = "An output directory needs to be specified."
    /\ retval' = 2
    /\ hpc' = "returned"
    /\ UNCHANGED <<args, raw_line, _ecode, nfiles, lineno, line, line_plain_text,
                   target_fs, tagged, normVars, tokVars, extVars>>

\* the next file of the list opens: annotate_file
AnnotateFile ==
    /\ hpc = "files"
    /\ nfiles < MaxFiles
    /\ nfiles' = nfiles + 1
    /\ stderr' = "Annotate"
    /\ lineno' = 0
    /\ raw_line' = <<>>
    /\ line' = <<>>
    /\ line_plain_text' = NotCalled
    /\ target_fs' = <<>>
    /\ tagged' = <<>>
    /\ hpc' = "loop"
    /\ UNCHANGED <<args, _ecode, retval, normVars, tokVars, extVars>>

\* the next file of the list is a directory: except IsADirectoryError
SkipDirectory ==
    /\ hpc = "files"
    /\ nfiles < MaxFiles
    /\ nfiles' = nfiles + 1
    /\ _ecode' = 1
    /\ stderr' = "Skip (directory)"
    /\ UNCHANGED <<args, raw_line, retval, lineno, line, line_plain_text, target_fs,
                   tagged, hpc, normVars, tokVars, extVars>>

\* except FileNotFoundError without "_ecode = 1"
SkipNotFound_forget ==
    /\ hpc = "files"
    /\ nfiles < MaxFiles
    /\ nfiles' = nfiles + 1
    /\ stderr' = "Skip (not found)"
    /\ UNCHANGED <<args, raw_line, _ecode, retval, lineno, line, line_plain_text,
                   target_fs, tagged, hpc, normVars, tokVars, extVars>>

\* the next file of the list does not exist: except FileNotFoundError
SkipNotFound ==
    /\ hpc = "files"
    /\ nfiles < MaxFiles
    /\ nfiles' = nfiles + 1
    /\ _ecode' = 1
    /\ stderr' = "Skip (not found)"
    /\ UNCHANGED <<args, raw_line, retval, lineno, line, line_plain_text, target_fs,
                   tagged, hpc, normVars, tokVars, extVars>>

\* the list of files is exhausted: return _ecode
HandleArgsReturn ==
    /\ hpc = "files"
    /\ args.indir \/ nfiles >= 1
    /\ retval' = _ecode
    /\ hpc' = "returned"
    /\ UNCHANGED <<args, raw_line, _ecode, stderr, nfiles, lineno, line, line_plain_text,
                   target_fs, tagged, normVars, tokVars, extVars>>

\* annotate_filestream reads the next line; process_line strips it and
\* yields it, and the line is printed
ReadLine ==
    /\ hpc = "loop"
    /\ lineno < MaxLines
    /\ \E l \in StreamLines :
          /\ raw_line' = l
          /\ line' = Strip(l, {" ", "\n"})
          /\ target_fs' = Emit(target_fs, "echo", lineno + 1, Strip(l, {" ", "\n"}))
    /\ lineno' = lineno + 1
    /\ line_plain_text' = NotCalled
    /\ hpc' = "echoed"
    /\ UNCHANGED <<args, _ecode, retval, stderr, nfiles, tagged, normVars, tokVars, extVars>>

\* source_fs is exhausted: annotate_filestream returns; _handle_args
\* returns _ecode (stdin) or goes on with the next file
EndOfStream ==
    /\ hpc = "loop"
    /\ IF args.std
       THEN retval' = _ecode /\ hpc' = "returned"
       ELSE retval' = retval /\ hpc' = "files"
    /\ UNCHANGED <<args, raw_line, _ecode, stderr, nfiles, lineno, line, line_plain_text,
                   target_fs, tagged, normVars, tokVars, extVars>>

\* process_line resumed on a header or a dependent tier: return
LineIsTier ==
    /\ hpc = "echoed"
    /\ IsTier(line)
    /\ hpc' = "loop"
    /\ UNCHANGED <<args, raw_line, _ecode, retval, stderr, nfiles, lineno, line,
                   line_plain_text, target_fs, tagged, normVars, tokVars, extVars>>

\* chat_to_plain_text raises: nothing in process_line or
\* annotate_filestream catches it; _handle_args catches it around
\* annotate_file only
ConversionError(plain) ==
    /\ plain.kind = "ChatToPlainTextConversionError"
    /\ IF args.std
       THEN /\ hpc' = "raised"
            /\ stderr' = "Traceback"
            /\ _ecode' = _ecode
       ELSE /\ hpc' = "files"
            /\ stderr' = "Error (ChatToPlainTextConversionError)"
            /\ _ecode' = 1
    /\ UNCHANGED <<args, raw_line, retval, nfiles, lineno, line, line_plain_text,
                   target_fs, tagged, normVars, tokVars, extVars>>

LineConversionError ==
    /\ hpc = "echoed"
    /\ ~IsTier(line)
    /\ ConversionError(chat_to_plain_text(line))

\* the normalised line is None, empty or on the skip list
NotAnnotated(plain) ==
    /\ plain.kind # "ChatToPlainTextConversionError"
    /\ ~ShouldAnnotate(plain)
    /\ line_plain_text' = plain
    /\ hpc' = "loop"
    /\ UNCHANGED <<args, raw_line, _ecode, retval, stderr, nfiles, lineno, line,
                   target_fs, tagged, normVars, tokVars, extVars>>

LineNotAnnotated ==
    /\ hpc = "echoed"
    /\ ~IsTier(line)
    /\ NotAnnotated(chat_to_plain_text(line))

\* the outcome of mor_line: its result is printed, its error is caught
\* nowhere
Yield(mor) ==
    IF mor.type = "str"
    THEN /\ target_fs' = Emit(target_fs, "mor", lineno, mor.str)
         /\ hpc' = "loop"
         /\ stderr' = stderr
    ELSE /\ target_fs' = target_fs
         /\ hpc' = "raised"
         /\ stderr' = "Traceback"

\* the normalised line goes to mor_line
Annotated(plain) ==
    /\ plain.kind # "ChatToPlainTextConversionError"
    /\ ShouldAnnotate(plain)
    /\ line_plain_text' = plain
    /\ tagged' = Append(tagged, plain.val)
    /\ Yield(mor_line(plain.val))
    /\ UNCHANGED <<args, raw_line, _ecode, retval, nfiles, lineno, line, normVars, tokVars, extVars>>

LineAnnotated ==
    /\ hpc = "echoed"
    /\ ~IsTier(line)
    /\ Annotated(chat_to_plain_text(line))

NextStream ==
    \/ HandleArgsStd \/ HandleArgsFiles \/ HandleArgsNoInput \/ HandleArgsNoOutdir
    \/ AnnotateFile \/ SkipDirectory \/ SkipNotFound \/ HandleArgsReturn
    \/ ReadLine \/ EndOfStream
    \/ LineIsTier \/ LineConversionError \/ LineNotAnnotated \/ LineAnnotated

SpecStream == InitStream /\ [][NextStream]_vars

(***************************************************************************)
(* annotation.py: mor_line, statement by statement, on plain texts of up   *)
(* to MaxWords words and a terminal                                        *)
(***************************************************************************)
MaxWords == 3

TextWords ==
    {QuoteOpen, QuoteClose, S("M{00E1}ma"), S("m{00E1}ma"), S("ne"),
     S("haf") \o PLACEHOLDER_INTERJECTION, PLACEHOLDER_INTERJECTION,
     S("x") \o PLACEHOLDER_NEOLOGISM}

PlainTexts ==
    {Join(S(" "), ws \o <<S(".")>>) :
        ws \in UNION {[1..n -> TextWords] : n \in 0..MaxWords}}

InitMor ==
    /\ mor_text \in PlainTexts
    /\ mor_tokens = <<>>
    /\ mor_flags = <<>>
    /\ tagged_tokens = <<>>
    /\ mor_words = <<>>
    /\ mor_result = NotComputed
    /\ mpc = "call"
    /\ NormIdle
    /\ TokIdle
    /\ StreamIdle
    /\ ToolIdle
    /\ ComposerIdle

\* lines 161-176: the text is tokenized and every token gets its flags
MorTokenize ==
    /\ mpc = "call"
    /\ mor_tokens' = tokenize_string(mor_text)
    /\ mor_flags' = Flags(tokenize_string(mor_text))
    /\ mpc' = "flagged"
    /\ UNCHANGED <<mor_text, tagged_tokens, mor_words, mor_result,
                   normVars, tokVars, streamVars, toolVars, composerVars>>

\* the tagger's tokens take the flags of the same index; flags[i] raises
\* IndexError when there are more of them than flags
Tagged(tagged_by_tagger) ==
    IF Len(tagged_by_tagger) > Len(mor_flags)
    THEN /\ mor_result' = IndexError
         /\ mpc' = "raised"
         /\ tagged_tokens' = tagged_tokens
    ELSE /\ mor_result' = mor_result
         /\ mpc' = "tagged"
         /\ tagged_tokens' = FlaggedTokens(tagged_by_tagger, mor_flags)

\* lines 178-187: the placeholders are removed and the text is tagged
MorTag ==
    /\ mpc = "flagged"
    /\ mor_text' = RemovePlaceholders(mor_text)
    /\ Tagged(tag_string(RemovePlaceholders(mor_text)))
    /\ UNCHANGED <<mor_tokens, mor_flags, mor_words,
                   normVars, tokVars, streamVars, toolVars, composerVars>>

\* line 188: tagged_tokens = filter_tokens(tagged_tokens)
MorFilter ==
    /\ mpc = "tagged"
    /\ tagged_tokens' = filter_tokens(tagged_tokens)
    /\ mpc' = "filtered"
    /\ UNCHANGED <<mor_text, mor_tokens, mor_flags, mor_words, mor_result,
                   normVars, tokVars, streamVars, toolVars, composerVars>>

\* the list of words is complete, or construct_mor_word raised
Built(words) ==
    IF \E i \in DOMAIN words : words[i].type = "KeyError"
    THEN /\ mor_result' = KeyError
         /\ mpc' = "raised"
         /\ mor_words' = mor_words
    ELSE /\ mor_result' = mor_result
         /\ mpc' = "built"
         /\ mor_words' = words

\* lines 189-192: construct_mor_word of every token left
MorBuild ==
    /\ mpc = "filtered"
    /\ Built(MorWords(tagged_tokens))
    /\ UNCHANGED <<mor_text, mor_tokens, mor_flags, tagged_tokens,
                   normVars, tokVars, streamVars, toolVars, composerVars>>

\* lines 193-198: the words are joined, the spacing of the terminals is
\* repaired, the line is returned
MorJoin ==
    /\ mpc = "built"
    /\ mor_result' = MorText(mor_words)
    /\ mpc' = "done"
    /\ UNCHANGED <<mor_text, mor_tokens, mor_flags, tagged_tokens, mor_words,
                   normVars, tokVars, streamVars, toolVars, composerVars>>

NextMor == MorTokenize \/ MorTag \/ MorFilter \/ MorBuild \/ MorJoin

SpecMor == InitMor /\ [][NextMor]_vars

(***************************************************************************)
(* The configuration of a run and the cached MorphoDiTa tools              *)
(***************************************************************************)
MaxCalls == 3

\* paths and types a user gives, on the command line or in the walkthrough
GivenPaths == {"a.tagger"}
GivenTypes == {"english"}

\* the command lines of the model
Argvs ==
    {<<>>, <<"--std">>}
        \cup {<<"--std", "--tagger", p>> : p \in GivenPaths}
        \cup {<<"--std", "-d", t>> : t \in GivenTypes}
        \cup {<<"-d", t, "-t", p, "--std">> : t \in GivenTypes, p \in GivenPaths}

\* what get_tagger and get_tokenizer are called with
PathArgs == {None, "", DefaultTaggerPath} \cup GivenPaths
TypeArgs == {None, "", DefaultTokenizerType} \cup GivenTypes

\* argument_handling.py lines 51-67: the value of an nargs=1 option after
\* parse_args, its default when the option is not given
OptionValue(argv, flags, default) ==
    IF \E i \in 1..(Len(argv) - 1) : argv[i] \in flags
    THEN List(<<argv[(CHOOSE i \in 1..(Len(argv) - 1) : argv[i] \in flags) + 1]>>)
    ELSE List(<<default>>)

\* the truth value of an option value: None and the empty list are falsy
Truthy(value) == value.type = "list" /\ value.items # <<>>

\* "if not path: path = constants.TAGGER_PATH"
ConfigurationOf(path, default) == IF path = None \/ path = "" THEN default ELSE path

\* a cache that is never found to hold anything
InCache_never(key, cache) == FALSE

\* "if path in _taggers"
InCache(key, cache) == key \in DOMAIN cache

InitTools ==
    /\ sys_argv \in Argvs
    /\ TAGGER_PATH = DefaultTaggerPath
    /\ TOKENIZER_TYPE = DefaultTokenizerType
    /\ _taggers = EmptyDict
    /\ _tokenizers = EmptyDict
    /\ arguments = [tokenizer |-> NoList, tagger |-> NoList]
    /\ loaded = <<>>
    /\ returned = <<>>
    /\ cpc = "main"
    /\ NormIdle
    /\ TokIdle
    /\ StreamIdle
    /\ MorIdle
    /\ ComposerIdle

\* annotation.py lines 367-375
ParseArgs ==
    /\ cpc = "main"
    /\ Len(sys_argv) > 0
    /\ arguments' = [tokenizer |-> OptionValue(sys_argv, {"-d", "--tokenizer"}, DefaultTokenizerType),
                     tagger |-> OptionValue(sys_argv, {"-t", "--tagger"}, DefaultTaggerPath)]
    /\ cpc' = "args"
    /\ UNCHANGED <<TAGGER_PATH, TOKENIZER_TYPE, _taggers, _tokenizers, sys_argv, loaded, returned,
                   normVars, tokVars, streamVars, morVars, composerVars>>

\* annotation.py lines 376-377, argument_handling.py lines 211-227: the two
\* answers of the user, either of which may be empty
ArgumentWalkthrough ==
    /\ cpc = "main"
    /\ Len(sys_argv) = 0
    /\ \E tokenizer_type \in {""} \cup GivenTypes, path \in {""} \cup GivenPaths :
           arguments' = [tokenizer |-> List(<<tokenizer_type>>), tagger |-> List(<<path>>)]
    /\ cpc' = "args"
    /\ UNCHANGED <<TAGGER_PATH, TOKENIZER_TYPE, _taggers, _tokenizers, sys_argv, loaded, returned,
                   normVars, tokVars, streamVars, morVars, composerVars>>

\* annotation.py lines 296-303
HandleArgsTools ==
    /\ cpc = "args"
    /\ TAGGER_PATH' = IF Truthy(arguments.tagger) THEN arguments.tagger.items[1] ELSE TAGGER_PATH
    /\ TOKENIZER_TYPE' = IF Truthy(arguments.tokenizer) THEN arguments.tokenizer.items[1]
                                                        ELSE TOKENIZER_TYPE
    /\ cpc' = "run"
    /\ UNCHANGED <<_taggers, _tokenizers, sys_argv, arguments, loaded, returned,
                   normVars, tokVars, streamVars, morVars, composerVars>>

\* the body of get_tagger and of get_tokenizer on the cache given, as the set
\* of its outcomes: a cached instance is returned; otherwise one is
\* constructed, which the library may refuse, and stored
GetTool(tool, arg, key, cache) ==
    LET call(instance) == [tool |-> tool, arg |-> arg, key |-> key, instance |-> instance]
        construction(constructed) ==
            Append(loaded, [tool |-> tool, arg |-> arg, key |-> key,
                            constructed |-> constructed])
    IN IF InCache(key, cache)
       THEN {[cache |-> cache, loaded |-> loaded, cpc |-> cpc,
              returned |-> Append(returned, call(cache[key]))]}
       ELSE {[cache |-> (key :> (Len(loaded) + 1)) @@ cache,
              loaded |-> construction(TRUE), cpc |-> cpc,
              returned |-> Append(returned, call(Len(loaded) + 1))],
             [cache |-> cache, loaded |-> construction(FALSE), cpc |-> "raised",
              returned |-> returned]}

\* morphodita_tools.py lines 15-36
GetTagger ==
    /\ cpc = "run"
    /\ Len(returned) < MaxCalls
    /\ \E path \in PathArgs :
           \E after \in GetTool("tagger", path, ConfigurationOf(path, TAGGER_PATH), _taggers) :
               /\ _taggers' = after.cache
               /\ loaded' = after.loaded
               /\ returned' = after.returned
               /\ cpc' = after.cpc
    /\ UNCHANGED <<TAGGER_PATH, TOKENIZER_TYPE, _tokenizers, sys_argv, arguments,
                   normVars, tokVars, streamVars, morVars, composerVars>>

\* morphodita_tools.py lines 39-60
GetTokenizer ==
    /\ cpc = "run"
    /\ Len(returned) < MaxCalls
    /\ \E tokenizer_type \in TypeArgs :
           \E after \in GetTool("tokenizer", tokenizer_type,
                                ConfigurationOf(tokenizer_type, TOKENIZER_TYPE), _tokenizers) :
               /\ _tokenizers' = after.cache
               /\ loaded' = after.loaded
               /\ returned' = after.returned
               /\ cpc' = after.cpc
    /\ UNCHANGED <<TAGGER_PATH, TOKENIZER_TYPE, _taggers, sys_argv, arguments,
                   normVars, tokVars, streamVars, morVars, composerVars>>

NextTools == ParseArgs \/ ArgumentWalkthrough \/ HandleArgsTools \/ GetTagger \/ GetTokenizer

SpecTools == InitTools /\ [][NextTools]_vars

(***************************************************************************)
(* transcription_conversion.py: LineComposer in convert_filestream         *)
(***************************************************************************)
MaxAdds == 3

\* the plaintext lines a source file is made of
SourceLines ==
    {S("*CHI:\ta .\n"), S("@End"), S("\tb\t\tc\n"), S(" d \r\n"), S("\n"), S("%com:\te\r\n")}

Sources == UNION {[1..n -> SourceLines] : n \in 0..MaxAdds}

\* regex.match(r"\s", string)
StartsWithWhitespace(string) == string # <<>> /\ string[1] \in Whitespace

\* regex.sub(r"$\s+|\t+", " ", string)
TabsToSpace(string) ==
    Sub([pattern |-> Alt(<<Cat(<<Eol, Star(Cls(Whitespace), 1)>>), Star(Lit("\t"), 1)>>),
         repl |-> <<Txt(S(" "))>>], string)

\* what self.predicate may return for a line: nothing (None or ""), or a
\* line of text, here the line itself
PredicateResults(chat) == {<<>>, chat}

\* lines 286-291: close_line when the predicate returns completed for the
\* line: the call, the target and self.line after it
close_line(chat, completed) ==
    [calls |-> Append(predicate_calls, [line |-> chat, completed |-> completed]),
     target_fs |-> IF completed # <<>> THEN Append(composed_fs, completed) ELSE composed_fs,
     line |-> <<>>]

\* lines 301-303
InitComposer ==
    /\ source_fs \in Sources
    /\ pending = source_fs
    /\ self_line = <<>>
    /\ predicate_calls = <<>>
    /\ composed_fs = <<>>
    /\ lpc = "with"
    /\ NormIdle
    /\ TokIdle
    /\ StreamIdle
    /\ MorIdle
    /\ ToolIdle

\* lines 304-305 and 270-284: composer.add(line) for the next line of source_fs
Add ==
    /\ lpc = "with"
    /\ pending # <<>>
    /\ LET string == Head(pending)
       IN IF self_line = <<>>
          THEN /\ self_line' = Strip(string, {"\r", "\n"})
               /\ UNCHANGED <<predicate_calls, composed_fs>>
          ELSE IF StartsWithWhitespace(string)
          THEN /\ self_line' = self_line \o TabsToSpace(Strip(string, {"\r", "\n"}))
               /\ UNCHANGED <<predicate_calls, composed_fs>>
          ELSE \E completed \in PredicateResults(self_line) :
                  LET closed == close_line(self_line, completed)
                  IN /\ predicate_calls' = closed.calls
                     /\ composed_fs' = closed.target_fs
                     /\ self_line' = Strip(string, {"\r", "\n"})
    /\ pending' = Tail(pending)
    /\ UNCHANGED <<source_fs, lpc, normVars, tokVars, streamVars, morVars, toolVars>>

\* lines 267-268: leaving the with block
Exit ==
    /\ lpc = "with"
    /\ pending = <<>>
    /\ \E completed \in PredicateResults(self_line) :
          LET closed == close_line(self_line, completed)
          IN /\ predicate_calls' = closed.calls
             /\ composed_fs' = closed.target_fs
             /\ self_line' = closed.line
    /\ lpc' = "done"
    /\ UNCHANGED <<source_fs, pending, normVars, tokVars, streamVars, morVars, toolVars>>

NextComposer == Add \/ Exit

SpecComposer == InitComposer /\ [][NextComposer]_vars

(***************************************************************************)
(* corrections.py: ChatToken                                               *)
(***************************************************************************)
\* line 33: ([a-z:_]+)\|([a-zA-Z0-9...accented letters..._]+)(-([a-zA-Z0-9&_\-]+))?
\* with the groups 1 and 2; group 4 is what the match holds behind the "-"
\* that follows group 2
MorWordPattern ==
    Cat(<<Grp(1, Star(Cls(LowerAscii \cup {":", "_"}), 1)),
          Lit("|"),
          Grp(2, Star(Cls(Letter \cup Digit \cup {"_"}), 1)),
          Rep(Cat(<<Lit("-"),
                    Star(Cls(LowerAscii \cup UpperAscii \cup Digit \cup {"&", "_", "-"}), 1)>>),
              0, 1)>>)

ValueError == [kind |-> "ValueError", word |-> <<>>, pos |-> <<>>, lemma |-> <<>>, cats |-> <<>>]

\* lines 28-41: ChatToken(word, mor_word); an attribute that is None is <<>>
ChatToken(word, mor_word_) ==
    IF \E k \in 1..Len(SKIP_LINES) : SKIP_LINES[k] = word
    THEN [kind |-> "ChatToken", word |-> word, pos |-> <<>>, lemma |-> <<>>, cats |-> <<>>]
    ELSE LET m == Match(<<MorWordPattern>>, mor_word_, 1, NoGroups)
         IN IF ~m.ok THEN ValueError
            ELSE [kind |-> "ChatToken", word |-> word,
                  pos |-> SubSeq(mor_word_, m.g[1][1], m.g[1][2] - 1),
                  lemma |-> SubSeq(mor_word_, m.g[2][1], m.g[2][2] - 1),
                  cats |-> SubSeq(mor_word_, m.g[2][2] + 1, m.e - 1)]

\* lines 43-51: the property ChatToken.mor_word
ChatToken_mor_word(self) ==
    IF self.pos = <<>> /\ self.lemma = <<>> THEN self.word
    ELSE self.pos \o S("|") \o self.lemma
            \o (IF self.cats # <<>> THEN S("-") \o self.cats ELSE <<>>)

(***************************************************************************)
(* Properties of the normaliser                                            *)
(***************************************************************************)
Accepted(s) == Search(PLAIN_TEXT_CRITERIA, s)
Raised == ret.kind = "ChatToPlainTextConversionError"
FirstCall == first_ret = NotCalled

\* C2 as stated: whenever chat_to_plain_text returns a value other than
\* None, the value matches PLAIN_TEXT_CRITERIA.
C2_AsStated ==
    (pc = "done" /\ ret.kind = "str") => Accepted(ret.val)

\* C2 amended: whenever chat_to_plain_text returns a non-empty string, the
\* string matches PLAIN_TEXT_CRITERIA; a line whose whole content the rules
\* delete is returned as the empty string.
C2_NonEmptyAccepted ==
    (pc = "done" /\ ret.kind = "str" /\ ret.val # <<>>) => Accepted(ret.val)

\* a non-empty accepted text that the rules had to rewrite
C2_Witness ==
    /\ pc = "done" /\ FirstCall
    /\ ret.kind = "str" /\ ret.val # <<>> /\ ret.val # chat_line

\* C3: for every line L for which chat_to_plain_text(L) returns a plain text
\* P, chat_to_plain_text(P) returns P again.
C3_Idempotent ==
    (pc = "done" /\ first_ret.kind = "str" /\ first_ret.val # <<>>)
        => ret = RetStr(first_ret.val)

\* C8: chat_to_plain_text raises exactly when a full pass of the rule table
\* left a non-empty string unchanged that does not match the pattern, and the
\* error carries the original line and that string; a pass that ends with a
\* non-empty string clears needs_review exactly when it changed nothing.
C8_PassStep ==
    (pc = "while" /\ pc' = "while" /\ result' # <<>>)
        => (needs_review' <=> (result' # result))
C8_ExitStep ==
    (pc = "while" /\ pc' = "done")
        => /\ (ret'.kind = "ChatToPlainTextConversionError")
                <=> /\ ~first_iteration /\ ~needs_review
                    /\ result # <<>> /\ ~Accepted(result)
           /\ (ret'.kind = "ChatToPlainTextConversionError")
                => /\ ret'.chat_line = chat_line
                   /\ ret'.result = result
                   /\ ApplyRules(result, 1).result_intermediate = result
C8_RaisesExactlyAtBadFixpoint == [][C8_PassStep /\ C8_ExitStep]_vars

\* an error raised after the rules had rewritten the line
C8_Witness ==
    pc = "done" /\ Raised /\ ret.result # chat_line /\ ret.chat_line = chat_line

\* C9: the normaliser returns None, without raising, for empty input and for
\* every line that starts with "@" or "%".
C9_HeaderIsNone ==
    (pc = "done" /\ FirstCall
       /\ (chat_line = <<>> \/ Head(chat_line) \in {"@", "%"}))
        => ret = RetNone

(***************************************************************************)
(* Properties of the classifier and the word builder                       *)
(***************************************************************************)
TagDone == tpc \in {"tag", "word"}

\* C4: for every token with a well-formed 15-character tag, whatever its
\* word and lemma, generate_mor_pos_label and generate_mor_tag return a
\* result and do not raise.
C4_ClassificationTotal ==
    /\ tpc # "token" => pos_label.type # "KeyError"
    /\ TagDone => mor_tag.type # "KeyError"

\* the categories each branch of generate_mor_tag declares as required
RequiredCats(tag) ==
    LET f == At(tag, 1)
    IN IF At(tag, 0) = "V"
       THEN CASE f = "f" -> {"form_type", "aspect"}
              [] f \in {"p", "q"} -> {"number", "tense", "voice", "gender", "aspect"}
              [] f = "s" -> {"number", "voice", "gender", "aspect"}
              [] f \in {"c", "i"} -> {"person", "number", "mood", "voice", "aspect"}
              [] f \in {"B", "t"} ->
                   {"person", "number", "mood", "tense", "voice", "aspect"}
              [] f \in {"e", "m"} ->
                   {"form_type", "number", "voice", "gender", "aspect"}
              [] OTHER -> {}
       ELSE IF At(tag, 0) \in {"N", "A", "P", "C"}
                 /\ ~(At(tag, 0) = "C" /\ At(tag, 1) = "v")
            THEN {"gender", "number", "case"}
            ELSE {}

\* what a category can be serialised as: its values and its placeholder
CatValues ==
    [form_type |-> {S("inf"), S("trans")},
     case |-> {<<d>> : d \in Digit} \cup {S("x_pad")},
     person |-> {S("1"), S("2"), S("3"), S("x_osoba")},
     number |-> {S("SG"), S("PL"), S("x_cislo")},
     mood |-> {S("cond"), S("imp"), S("ind"), S("x_zpusob")},
     tense |-> {S("futur"), S("pres"), S("past"), S("x_cas")},
     voice |-> {S("akt"), S("pas"), S("x_slovesny_rod")},
     gender |-> {S("M"), S("MA"), S("MI"), S("F"), S("N"), S("x_jmenny_rod")},
     aspect |-> {S("pf"), S("impf"), S("biasp"), S("x_vid")}]

\* the maximal pieces of s between the separators "-" and "&"
Segments(s) ==
    LET sep(k) == k < 1 \/ k > Len(s) \/ s[k] \in {"-", "&"}
    IN {SubSeq(s, a, b) : <<a, b>> \in
          {ab \in (1..Len(s)) \X (1..Len(s)) :
              /\ ab[1] <= ab[2]
              /\ sep(ab[1] - 1) /\ sep(ab[2] + 1)
              /\ \A k \in ab[1]..ab[2] : s[k] \notin {"-", "&"}}}

Carries(str, cat) == Segments(str) \cap CatValues[cat] # {}

\* C5 as stated: the string returned by generate_mor_tag carries every
\* category its branch requires, as a value or as the placeholder; no
\* required category is ever missing.
C5_AsStated ==
    (TagDone /\ mor_tag.type = "str") =>
        \A cat \in RequiredCats(token.tag) : Carries(mor_tag.str, cat)

\* C5: the string returned by generate_mor_tag carries every category its
\* branch requires, as a value or as the placeholder, except the gender of
\* the personal pronouns (já, my, ty, vy, se), which is removed; for these
\* lemmas the string carries no gender at all.
C5_RequiredExceptPronounGender ==
    (TagDone /\ mor_tag.type = "str") =>
        IF token.lemma \in LemmasNoGender
        THEN /\ \A cat \in RequiredCats(token.tag) \ {"gender"} :
                    Carries(mor_tag.str, cat)
             /\ ~Carries(mor_tag.str, "gender")
        ELSE \A cat \in RequiredCats(token.tag) : Carries(mor_tag.str, cat)

\* a past participle whose tag gives neither gender nor aspect: both come
\* out as placeholders
C5_Witness ==
    /\ TagDone
    /\ At(token.tag, 0) = "V" /\ At(token.tag, 1) = "p"
    /\ At(token.tag, 2) = "-" /\ At(token.tag, 12) = "-"
    /\ token.lemma \notin LemmasNoGender
    /\ mor_tag.type = "str"
    /\ S("x_jmenny_rod") \in Segments(mor_tag.str)
    /\ S("x_vid") \in Segments(mor_tag.str)

IsPrefix(a, b) == Len(a) <= Len(b) /\ SubSeq(b, 1, Len(a)) = a
IsSuffix(a, b) == Len(a) <= Len(b) /\ SubSeq(b, Len(b) - Len(a) + 1, Len(b)) = a

\* C10: construct_mor_word decides by the first applicable rule of
\* punctuation label > interjection flag > neologism flag > foreign flag >
\* full-word override table > generic composition (label, "|", lemma and
\* the category string of the token).
C10_Priority ==
    tpc = "word" =>
        LET punct == pos_label = PyStr(S("Z"))
            fl == token.flags
        IN CASE punct ->
                  mor_word = PyStr(IF token.lemma = S(",") THEN S("cm|cm")
                                   ELSE token.lemma)
             [] ~punct /\ "interjection" \in fl ->
                  mor_word = PyStr(S("int|") \o token.word)
             [] ~punct /\ "interjection" \notin fl /\ "neologism" \in fl ->
                  mor_word = PyStr(S("x|") \o token.word \o S("-neo"))
             [] ~punct /\ {"interjection", "neologism"} \cap fl = {}
                  /\ "foreign" \in fl ->
                  mor_word = PyStr(S("x|") \o token.word \o S("-for"))
             [] ~punct /\ {"interjection", "neologism", "foreign"} \cap fl = {}
                  /\ Has(MOR_WORDS_OVERRIDES, token.word) ->
                  mor_word = PyStr(Get(MOR_WORDS_OVERRIDES, token.word))
             [] OTHER ->
                  IF mor_tag.type = "KeyError"
                  THEN mor_word.type = "KeyError"
                  ELSE /\ mor_word.type = "str"
                       /\ IsPrefix(Format(pos_label) \o S("|"), mor_word.str)
                       /\ mor_tag.str # <<>> =>
                              IsSuffix(S("-") \o mor_tag.str, mor_word.str)

\* an interjection-flagged token whose surface form is in the override
\* table
C10_Witness ==
    /\ tpc = "word"
    /\ pos_label # PyStr(S("Z"))
    /\ "interjection" \in token.flags
    /\ Has(MOR_WORDS_OVERRIDES, token.word)
    /\ mor_word = PyStr(S("int|") \o token.word)
    /\ mor_word # PyStr(Get(MOR_WORDS_OVERRIDES, token.word))


(***************************************************************************)
(* Properties of the stream driver                                         *)
(***************************************************************************)
IsConversionError(plain) == plain.kind = "ChatToPlainTextConversionError"

\* process_line is resumed on a speech line whose normalisation raises
FailingLine ==
    hpc = "echoed" /\ ~IsTier(line) /\ IsConversionError(chat_to_plain_text(line))

\* C1: when the normalisation of a line fails with a conversion error only
\* that line's annotation is omitted and the same stream goes on with its
\* next line, in stdin mode as well as in batch mode.
C1_StreamContinues ==
    [][FailingLine =>
          /\ hpc' = "loop"
          /\ target_fs' = target_fs
          /\ nfiles' = nfiles /\ lineno' = lineno]_vars

\* the echo lines of fs before position i
EchoesBefore(fs, i) == {j \in 1..(i - 1) : fs[j].kind = "echo"}

\* the %mor line mor_line makes of a line of the input
MorOf(text) == mor_line(chat_to_plain_text(text).val)

\* C6: target_fs holds the output in input order: the k-th echo is line k
\* of the input, every line read has its echo, and a %mor line directly
\* follows the echo of the line it was generated from, so that a line has
\* at most one.
C6_OutputOrder ==
    /\ Cardinality(EchoesBefore(target_fs, Len(target_fs) + 1)) = lineno
    /\ \A i \in DOMAIN target_fs :
          IF target_fs[i].kind = "echo"
          THEN target_fs[i].lineno = Cardinality(EchoesBefore(target_fs, i)) + 1
          ELSE /\ target_fs[i].kind = "mor"
               /\ i > 1
               /\ target_fs[i - 1].kind = "echo"
               /\ target_fs[i - 1].lineno = target_fs[i].lineno
               /\ PyStr(target_fs[i].text) = MorOf(target_fs[i - 1].text)

\* a %mor line followed by the echo of the next line
C6_Witness ==
    \E i \in DOMAIN target_fs :
        /\ target_fs[i].kind = "mor"
        /\ i < Len(target_fs)
        /\ target_fs[i + 1].lineno = target_fs[i].lineno + 1

SkipSet == {SKIP_LINES[i] : i \in DOMAIN SKIP_LINES}

\* None, empty, or exactly a member of the skip list
NothingToAnnotate(plain) ==
    \/ plain.kind = "None"
    \/ plain.kind = "str" /\ plain.val \in SkipSet \cup {<<>>}

\* C7: a speech line whose normalised form is on the skip list, empty or
\* None yields only its echo: process_line ends without printing a %mor
\* line and without handing anything to the tagger.
C7_SkippedLineOnlyEchoed ==
    [][(hpc = "echoed" /\ ~IsTier(line)
          /\ NothingToAnnotate(chat_to_plain_text(line))) =>
          /\ target_fs' = target_fs
          /\ tagged' = tagged
          /\ hpc' = "loop"]_vars

\* the line "*CHI:<TAB>xxx ." has been processed: its normal form is "."
C7_Witness ==
    /\ hpc = "loop"
    /\ line = S("*CHI:\txxx .")
    /\ line_plain_text = RetStr(S("."))
    /\ target_fs # <<>>
    /\ target_fs[Len(target_fs)] =
           [kind |-> "echo", lineno |-> lineno, text |-> S("*CHI:\txxx .")]
    /\ \A i \in DOMAIN tagged : tagged[i] # S(".")


(***************************************************************************)
(* Properties of the POS label and of the category string                  *)
(***************************************************************************)
LabelDone == tpc # "token"

\* the label the override table assigns to a word of a lemma: the entry of
\* the word, else the default entry "_"
TableLabel(lemma, word) ==
    LET entry == Get(MOR_POS_OVERRIDES, lemma)
    IN IF Has(entry, word) THEN Get(entry, word) ELSE Get(entry, S("_"))

\* C11: for a token whose lemma is in the POS override table the POS label
\* is the string the table assigns: the entry of the surface word form
\* when there is one, otherwise the default entry "_", whatever the tag.
C11_OverrideLabelIsString ==
    (LabelDone /\ Has(MOR_POS_OVERRIDES, token.lemma)) =>
        pos_label = PyStr(TableLabel(token.lemma, token.word))

\* C12: for a token whose lemma is not in the POS override table the label
\* is a non-empty string, and it is "x" when tag position 0 is none of the
\* classes of the decision table.
C12_LabelNeverEmpty ==
    (LabelDone /\ ~Has(MOR_POS_OVERRIDES, token.lemma)) =>
        /\ pos_label.type = "str"
        /\ pos_label.str # <<>>
        /\ At(token.tag, 0) \notin
              {"N", "A", "P", "C", "V", "D", "R", "J", "T", "I", "Z"} =>
                  pos_label.str = S("x")

\* C13: the category string is the lexical values and the "&"-joined
\* grammatical values joined by "-" with empty segments omitted: it neither
\* starts nor ends with "-" and holds no "--".
C13_NoEmptySegment ==
    (TagDone /\ mor_tag.type = "str" /\ mor_tag.str # <<>>) =>
        LET s == mor_tag.str
        IN /\ s[1] # "-"
           /\ s[Len(s)] # "-"
           /\ \A k \in 1..(Len(s) - 1) : ~(s[k] = "-" /\ s[k + 1] = "-")


(***************************************************************************)
(* Properties of the full-word override                                    *)
(***************************************************************************)
RadUnflagged == tpc = "word" /\ token.word = S("r{00E1}d") /\ token.flags = {}

InBatch == ~args.std /\ hpc \in {"files", "loop", "echoed"}

\* the file at index nfiles + 1 is taken from the list
FileAttempted == hpc = "files" /\ nfiles' = nfiles + 1

\* the attempt of a file ends in one of the three handled errors
FileFailed ==
    \/ FileAttempted /\ stderr' \in {"Skip (directory)", "Skip (not found)"}
    \/ hpc = "echoed" /\ stderr' = "Error (ChatToPlainTextConversionError)"

\* C15: in batch mode the files are attempted one by one in list order (the
\* index of the next file grows by one per attempt, never otherwise, also
\* after a missing file, a directory or a normalization failure, each of
\* which leaves the loop over the files running); the exit code becomes 1
\* exactly at such a failure, never returns to 0, and is the value returned.
C15_BatchExitCode ==
    [][InBatch =>
          /\ nfiles' # nfiles => FileAttempted
          /\ FileFailed => (_ecode' = 1 /\ hpc' = "files")
          /\ _ecode' # _ecode => FileFailed
          /\ _ecode = 1 => _ecode' = 1
          /\ hpc' = "returned" => retval' = _ecode]_vars

\* the first file failed, the second was annotated after it, and the batch
\* returned 1
C15_Witness ==
    /\ ~args.std /\ hpc = "returned"
    /\ nfiles = 2 /\ retval = 1
    /\ stderr = "Annotate" /\ target_fs # <<>>


(***************************************************************************)
(* The example lines                                                       *)
(***************************************************************************)
Returned(l) == pc = "done" /\ FirstCall /\ chat_line = l

\* C16: the line "*CHI:<TAB>toho &vybavová vybarvování." normalizes to
\* "toho vybarvování ."; the fragment "&vybavová" is removed and the
\* normalization succeeds.
C16_FragmentRemoved ==
    Returned(S("*CHI:\ttoho &vybavov{00E1} vybarvov{00E1}n{00ED}."))
        => ret = RetStr(S("toho vybarvov{00E1}n{00ED} ."))

\* C17: the line "*MOT:<TAB>koupu 0se 0ve vodě ." normalizes to
\* "koupu vodě ."; the omitted words "0se" and "0ve" are removed.
C17_OmissionRemoved ==
    Returned(S("*MOT:\tkoupu 0se 0ve vod{011B} ."))
        => ret = RetStr(S("koupu vod{011B} ."))

C19_SpecialCasesOverride ==
    TagDone =>
        /\ token.lemma \in LemmasNeuter =>
              /\ mor_tag.type = "str"
              /\ Segments(mor_tag.str) \cap CatValues["gender"] = {S("N")}
        /\ token.lemma \in LemmasMasculine =>
              /\ mor_tag.type = "str"
              /\ Segments(mor_tag.str) \cap CatValues["gender"] = {S("M")}
        /\ token.lemma \in LemmasSingular =>
              /\ mor_tag.type = "str"
              /\ Segments(mor_tag.str) \cap CatValues["number"] = {S("SG")}
        /\ token.lemma \in LemmasNoGender =>
              /\ mor_tag.type = "str"
              /\ ~Carries(mor_tag.str, "gender")

IsNominal(tag) ==
    At(tag, 0) \in {"N", "A", "P", "C"} /\ ~(At(tag, 0) = "C" /\ At(tag, 1) = "v")

\* what the tag positions 2, 3 and 4 stand for
TagGender(tag) ==
    CASE At(tag, 2) = "M" /\ At(tag, 0) = "N" -> S("MA")
      [] At(tag, 2) = "I" /\ At(tag, 0) = "N" -> S("MI")
      [] At(tag, 2) \in {"M", "I", "Y"} -> S("M")
      [] At(tag, 2) \in {"F", "N"} -> <<At(tag, 2)>>
      [] OTHER -> S("x_jmenny_rod")
TagNumber(tag) ==
    CASE At(tag, 3) = "S" -> S("SG")
      [] At(tag, 3) \in {"P", "D"} -> S("PL")
      [] OTHER -> S("x_cislo")
TagCase(tag) ==
    IF At(tag, 4) \in Digit THEN <<At(tag, 4)>> ELSE S("x_pad")

\* the grammatical part of a category string: what follows its last "-"
GrammaticalPart(s) ==
    LET dashes == {k \in 1..Len(s) : s[k] = "-"}
    IN IF dashes = {} THEN s ELSE SubSeq(s, MaxOf(dashes) + 1, Len(s))

Marenku ==
    /\ token.word = S("Ma{0159}enku") /\ token.lemma = S("Ma{0159}enka")
    /\ token.tag = S("NNFS4-----A----")
    /\ "quotation_beginning" \notin token.flags

\* C20 as stated: for every noun, adjective, pronoun and non-multiplicative
\* numeral tag the categories are case, number and gender as the tag
\* positions 4, 3 and 2 give them (MA/MI for nouns, M otherwise, dual as
\* PL, defaults when missing); (Mařenku, Mařenka, NNFS4...) gets the label
\* n:prop and the categories 4&SG&F.
C20_AsStated ==
    (TagDone /\ IsNominal(token.tag)) =>
        /\ mor_tag.type = "str"
        /\ GrammaticalPart(mor_tag.str) =
              Join(S("&"), <<TagCase(token.tag), TagNumber(token.tag),
                             TagGender(token.tag)>>)
        /\ Marenku => (pos_label = PyStr(S("n:prop")) /\ mor_tag = PyStr(S("4&SG&F")))

\* C20: for every noun, adjective, pronoun and non-multiplicative numeral
\* tag the categories are case, number and gender as the tag positions 4,
\* 3 and 2 give them (MA/MI for nouns, M otherwise, dual as PL, defaults
\* when missing), unless the lemma is a closed-class special case: then the
\* number is SG (kdo..., co..., se), the gender is M (kdo...) or N (co...)
\* or is left out (já, my, ty, vy, se); (Mařenku, Mařenka, NNFS4...) gets
\* the label n:prop and the categories 4&SG&F.
C20_NominalCategories ==
    (TagDone /\ IsNominal(token.tag)) =>
        /\ mor_tag.type = "str"
        /\ GrammaticalPart(mor_tag.str) =
              Join(S("&"),
                   <<TagCase(token.tag),
                     IF token.lemma \in LemmasSingular THEN S("SG")
                     ELSE TagNumber(token.tag)>>
                   \o (IF token.lemma \in LemmasNoGender THEN <<>>
                       ELSE IF token.lemma \in LemmasMasculine THEN <<S("M")>>
                       ELSE IF token.lemma \in LemmasNeuter THEN <<S("N")>>
                       ELSE <<TagGender(token.tag)>>))
        /\ Marenku => (pos_label = PyStr(S("n:prop")) /\ mor_tag = PyStr(S("4&SG&F")))

\* an inanimate masculine adjective in the dual with no case
C20_Witness ==
    /\ TagDone
    /\ At(token.tag, 0) = "A" /\ At(token.tag, 2) = "I"
    /\ At(token.tag, 3) = "D" /\ At(token.tag, 4) = "-"
    /\ token.lemma \notin (LemmasSingular \cup LemmasNoGender)
    /\ mor_tag.type = "str"
    /\ GrammaticalPart(mor_tag.str) = S("x_pad&PL&M")


(***************************************************************************)
(* Properties of process_line                                              *)
(***************************************************************************)
StartsWithMarker(l) == l # <<>> /\ l[1] \in {"@", "%"}
LastEmitted == target_fs[Len(target_fs)]

\* C21: for a line that starts with "@" or "%", process_line emits the echo
\* and nothing else and stops: the normalizer and the tagger are not called
\* and the next thing printed, if any, is the echo of the next line.
C21_TierOnlyEchoed ==
    [][/\ (hpc' = "echoed" /\ StartsWithMarker(raw_line')) =>
              /\ Len(target_fs') = Len(target_fs) + 1
              /\ target_fs'[Len(target_fs')] =
                    [kind |-> "echo", lineno |-> lineno', text |-> line']
       /\ (hpc = "echoed" /\ StartsWithMarker(raw_line)) =>
              /\ hpc' = "loop"
              /\ target_fs' = target_fs
              /\ line_plain_text' = NotCalled
              /\ tagged' = tagged
              /\ stderr' = stderr]_vars

\* a dependent tier was read and left behind with its echo only
C21_Witness ==
    /\ hpc = "loop" /\ lineno >= 1
    /\ raw_line = S("%mor:\tx\n")
    /\ LastEmitted = [kind |-> "echo", lineno |-> lineno, text |-> S("%mor:\tx")]
    /\ line_plain_text = NotCalled
    /\ tagged = <<>>

\* the line without the characters of chars at its end
RStrip(s, chars) ==
    LET keep == {k \in 1..Len(s) : s[k] \notin chars}
    IN IF keep = {} THEN <<>> ELSE SubSeq(s, 1, MaxOf(keep))

\* C22: the first line process_line emits for a raw line is the raw line
\* with only its trailing newline and space characters removed; nothing at
\* its beginning is removed.
C22_EchoKeepsBeginning ==
    hpc = "echoed" =>
        /\ LastEmitted.kind = "echo"
        /\ LastEmitted.text = RStrip(raw_line, {" ", "\n"})


(***************************************************************************)
(* Properties of mor_line                                                  *)
(***************************************************************************)
IsQuote(t) == t.word \in {QuoteOpen, QuoteClose}

\* the k-th smallest element of a set of indices
Nth(indices, k) ==
    CHOOSE i \in indices : Cardinality({j \in indices : j < i}) = k - 1

\* C23: the words joined into the %mor line are one word per tagged token
\* whose surface form is not a quotation mark, in token order: the filter
\* drops exactly the quotation marks and construct_mor_word is applied once
\* to every token left.
C23_OneWordPerToken ==
    [][/\ (mpc = "tagged" /\ mpc' = "filtered") =>
              LET kept == {i \in DOMAIN tagged_tokens : ~IsQuote(tagged_tokens[i])}
              IN /\ Len(tagged_tokens') = Cardinality(kept)
                 /\ \A k \in DOMAIN tagged_tokens' :
                       tagged_tokens'[k] = tagged_tokens[Nth(kept, k)]
       /\ (mpc = "filtered" /\ mpc' = "built") =>
              /\ tagged_tokens' = tagged_tokens
              /\ Len(mor_words') = Len(tagged_tokens)
              /\ \A i \in DOMAIN tagged_tokens :
                    mor_words'[i] = construct_mor_word(tagged_tokens[i])
       /\ (mpc = "built" /\ mpc' = "done") =>
              /\ mor_words' = mor_words
              /\ mor_result'.type = "str"]_vars

\* a quoted word and the terminal: two words for four tokens
C23_Witness ==
    /\ mpc = "built"
    /\ mor_tokens = <<QuoteOpen, S("M{00E1}ma"), QuoteClose, S(".")>>
    /\ Len(mor_words) = 2
    /\ mor_words[1] = PyStr(S("n|m{00E1}ma-1&SG&F"))
    /\ mor_words[2] = PyStr(S("."))

\* the flags a tokenizer token stands for
OwnFlags(word) ==
    IF EndsWith(word, PLACEHOLDER_NEOLOGISM) THEN {"neologism"}
    ELSE IF EndsWith(word, PLACEHOLDER_FOREIGN) THEN {"foreign"}
    ELSE IF EndsWith(word, PLACEHOLDER_INTERJECTION) THEN {"interjection"}
    ELSE {}

\* C26: the flag set of the i-th tagged token is the one derived from the
\* tokenizer token of the same word: the tagger yields as many tokens as
\* flag sets were derived, and a tagged token counts as interjection,
\* neologism or foreign iff its own word carried the placeholder.
C26_FlagsOfOwnWord ==
    /\ mpc = "raised" => mor_result # IndexError
    /\ mpc = "tagged" =>
          /\ Len(tagged_tokens) = Len(mor_flags)
          /\ \A i \in DOMAIN tagged_tokens :
                /\ i \in DOMAIN mor_tokens
                /\ tagged_tokens[i].word = RemovePlaceholders(mor_tokens[i])
                /\ tagged_tokens[i].flags \ {"quotation_beginning"}
                      = OwnFlags(mor_tokens[i])

\* the tokenizer tokens of which something is left for the tagger
Survivors ==
    {j \in DOMAIN mor_tokens : RemovePlaceholders(mor_tokens[j]) # <<>>}

\* the token before the i-th tagged token in the tokenizer output is the
\* opening quotation mark
AfterQuoteOpen(i) ==
    /\ i <= Cardinality(Survivors)
    /\ Nth(Survivors, i) > 1
    /\ mor_tokens[Nth(Survivors, i) - 1] = QuoteOpen

\* C27: a noun token whose lemma is not in the POS override table is
\* labelled n:prop iff its surface form is capitalized and the token before
\* it in the tokenizer output is not the opening quotation mark; otherwise
\* it is labelled n.
C27_ProperNounLabel ==
    mpc = "tagged" =>
        \A i \in DOMAIN tagged_tokens :
            (At(tagged_tokens[i].tag, 0) = "N"
               /\ ~Has(MOR_POS_OVERRIDES, tagged_tokens[i].lemma)) =>
                generate_mor_pos_label(tagged_tokens[i]) =
                    IF tagged_tokens[i].word = capitalize(tagged_tokens[i].word)
                         /\ ~AfterQuoteOpen(i)
                    THEN PyStr(S("n:prop")) ELSE PyStr(S("n"))


(***************************************************************************)
(* Termination of the normaliser                                           *)
(***************************************************************************)
Count(s, chars) == Cardinality({k \in 1..Len(s) : s[k] \in chars})

\* what a pass of the rule table can only use up: the "@" of the markers, the
\* length, the hyphens and the whitespace other than the space
Measure(s) == <<Count(s, {"@"}), Len(s), Count(s, {"-"} \cup (Whitespace \ {" "}))>>

Less(m, n) ==
    \/ m[1] < n[1]
    \/ m[1] = n[1] /\ m[2] < n[2]
    \/ m[1] = n[1] /\ m[2] = n[2] /\ m[3] < n[3]

\* C25: chat_to_plain_text terminates on every line: a pass after which the
\* loop may pass again has made the string smaller in a well-founded order,
\* and every call ends, returning or raising.
C25_Terminates ==
    /\ [][(pc = "while" /\ pc' = "while" /\ needs_review')
             => Less(Measure(result'), Measure(result))]_vars
    /\ (pc = "call") ~> (pc = "done")

\* a call that changed the line, found nothing more to change and raised
C25_Witness ==
    /\ pc = "done" /\ FirstCall
    /\ Raised
    /\ ~first_iteration /\ ~needs_review
    /\ result # chat_line


(***************************************************************************)
(* Properties of the cached tools and of the configuration of a run        *)
(***************************************************************************)
Tools == {"tagger", "tokenizer"}
Configurations == PathArgs \cup TypeArgs

\* the constructions of a tool from a configuration that gave an instance
Constructions(tool, key) ==
    {i \in 1..Len(loaded) :
        loaded[i].tool = tool /\ loaded[i].key = key /\ loaded[i].constructed}

\* every entry of the cache stays what it is
Kept(cache_before, cache_now) ==
    \A key \in DOMAIN cache_before :
        key \in DOMAIN cache_now /\ cache_now[key] = cache_before[key]

\* C24: in any sequence of get_tagger / get_tokenizer calls at most one
\* instance is constructed per path or type, calls with the same
\* configuration return the same instance, and an entry of either cache is
\* never replaced or removed.
C24_OneInstancePerConfiguration ==
    /\ [](\A tool \in Tools, key \in Configurations :
             Cardinality(Constructions(tool, key)) <= 1)
    /\ [](\A i, j \in 1..Len(returned) :
             (returned[i].tool = returned[j].tool /\ returned[i].key = returned[j].key)
                 => returned[i].instance = returned[j].instance)
    /\ [][Kept(_taggers, _taggers') /\ Kept(_tokenizers, _tokenizers')]_vars

\* the tagger of one path asked for three times, once by that path and twice
\* as the configured one: constructed once, the same instance each time
C24_Witness ==
    /\ Len(returned) = 3
    /\ \A i \in 1..3 : returned[i].tool = "tagger" /\ returned[i].key = "a.tagger"
    /\ returned[1].arg = "a.tagger" /\ returned[2].arg = None
    /\ Len(loaded) = 1

\* the answer the user gave for a tool in the walkthrough
Answer(tool) == IF tool = "tagger" THEN arguments.tagger ELSE arguments.tokenizer
DefaultOf(tool) == IF tool = "tagger" THEN DefaultTaggerPath ELSE DefaultTokenizerType

\* C30: when the user leaves the tagger path or the tokenizer type empty in
\* the walkthrough, the tagger or tokenizer the run then constructs (that
\* get_tagger() or get_tokenizer() constructs, called without an argument)
\* is built from the default of constants.py.
C30_EmptyAnswerMeansDefault ==
    \A i \in 1..Len(loaded) :
        (/\ sys_argv = <<>>
         /\ Answer(loaded[i].tool) = List(<<"">>)
         /\ loaded[i].arg = None)
            => loaded[i].key = DefaultOf(loaded[i].tool)


(***************************************************************************)
(* Properties of LineComposer                                              *)
(***************************************************************************)
\* a line without its line terminators; its text, the characters that are
\* not whitespace
Unterminated(string) == SelectSeq(string, LAMBDA c : c \notin {"\r", "\n"})
Text(string) == SelectSeq(string, LAMBDA c : c \notin Whitespace)

\* the lines of the source that start a CHAT line: a line that is not blank
\* and either does not start with whitespace or has no CHAT line before it
\* to be appended to
LineStarts ==
    {i \in 1..Len(source_fs) :
        /\ Unterminated(source_fs[i]) # <<>>
        /\ \/ source_fs[i][1] \notin Whitespace
           \/ \A j \in 1..(i - 1) : Unterminated(source_fs[j]) = <<>>}

\* the k-th of them, and the last plaintext line that belongs to its CHAT line
StartOf(k) == CHOOSE i \in LineStarts : Cardinality({j \in LineStarts : j < i}) = k - 1
EndOf(k) ==
    IF k = Cardinality(LineStarts) THEN Len(source_fs) ELSE StartOf(k + 1) - 1

RECURSIVE TextOf(_, _)
\* the text of the plaintext lines from to upto
TextOf(from, upto) ==
    IF from > upto THEN <<>> ELSE Text(source_fs[from]) \o TextOf(from + 1, upto)

RECURSIVE Written(_)
\* the results that are written: those that are not None or ""
Written(calls) ==
    IF calls = <<>> THEN <<>>
    ELSE (IF Head(calls).completed # <<>> THEN <<Head(calls).completed>> ELSE <<>>)
            \o Written(Tail(calls))

\* C28: after any sequence of add calls and the exit of the context the
\* predicate has been called exactly once per composed CHAT line, in the
\* order of the input, on a line that holds the text of the plaintext line
\* that started it and of the whitespace-initial lines after it; each truthy
\* result is in the target once, and no text is lost.
C28_OneCallPerChatLine ==
    lpc = "done" =>
        /\ Len(predicate_calls) = Cardinality(LineStarts)
        /\ \A k \in 1..Cardinality(LineStarts) :
              k <= Len(predicate_calls)
                  => Text(predicate_calls[k].line) = TextOf(StartOf(k), EndOf(k))
        /\ composed_fs = Written(predicate_calls)


(***************************************************************************)
(* Properties of the words of the annotation in the corrector               *)
(***************************************************************************)
\* a token that is a word and that the tagger did not tag as punctuation
NonPunctuation ==
    /\ At(token.tag, 0) # "Z"
    /\ \E k \in 1..Len(token.word) : token.word[k] \in Letter \cup Digit

\* C29: every word construct_mor_word produces for a token that is not
\* punctuation is parsed by ChatToken without a ValueError, and the mor_word
\* of the ChatToken is that word again.
C29_RoundTrip ==
    (tpc = "word" /\ mor_word.type = "str" /\ NonPunctuation) =>
        LET parsed == ChatToken(token.word, mor_word.str)
        IN /\ parsed.kind = "ChatToken"
           /\ ChatToken_mor_word(parsed) = mor_word.str

====
